---------------------------- MODULE Spec2Model ----------------------------
(* A model of the xb interpreter core (mcjo163/xb): the Environment frame   *)
(* chain (interpreter/environment.py), the Value classes and the Op facade  *)
(* (interpreter/value.py), the tree-walking evaluator                       *)
(* (interpreter/ast.py) and the two drivers, the REPL loop (repl.py) and    *)
(* file mode (run.py).                                                      *)
EXTENDS Integers, Sequences, FiniteSets, TLC

VARIABLES
    envs,      \* the Environment objects created so far: <<[parent, _dict]>>
    envRet,    \* the outcome of the last Environment operation
    obj,       \* an Object value
    objRet,    \* the outcome of the last key operation on obj
    arr,       \* an Array value
    arrRet,    \* the outcome of the last index operation on arr
    opA,       \* the operands handed to the Op facade
    opB,
    opName,    \* the Op operation applied last
    opRet,     \* and its outcome
    heap,      \* the list and dict objects the evaluator has made
    evRet,     \* the program evaluated last and its outcome
    pc         \* where the driver stands: "prompt", "file", "eval", "done";
               \* "idle" where no driver runs

envVars == <<envs, envRet>>

objVars == <<obj, objRet>>

arrVars == <<arr, arrRet>>

opVars == <<opA, opB, opName, opRet>>

evVars == <<heap, evRet, pc>>

notEnvVars == <<objVars, arrVars, opVars, evVars>>

notObjVars == <<envVars, arrVars, opVars, evVars>>

notArrVars == <<envVars, objVars, opVars, evVars>>

notOpVars == <<envVars, objVars, arrVars, evVars>>

vars == <<envs, envRet, obj, objRet, arr, arrRet, opA, opB, opName, opRet,
          heap, evRet, pc>>

(***************************************************************************)
(* Bounds of the model.                                                    *)
(***************************************************************************)
MaxEnvs == 3

MaxBindings == 2

MaxArrayLen == 2

MaxHeap == 2

(***************************************************************************)
(* Python numbers: an int, or a float held as the fraction n/d in lowest   *)
(* terms (d > 0).                                                          *)
(***************************************************************************)
NoError == ""

PyInt(n) == [py |-> "int", n |-> n, d |-> 1]

PyFloat(n, d) == [py |-> "float", n |-> n, d |-> d]

\* int(x): truncation toward zero
PyTrunc(x) == IF x.n >= 0 THEN x.n \div x.d ELSE -((-x.n) \div x.d)

\* x == i for a Python number x and an integer i
PyIsWhole(x) == PyTrunc(x) * x.d = x.n

RECURSIVE Gcd(_, _)
Gcd(a, b) == IF b = 0 THEN a ELSE Gcd(b, a % b)

Abs(n) == IF n < 0 THEN -n ELSE n

\* the float n/d in lowest terms, d # 0
PyFrac(n, d) ==
    LET g == Gcd(Abs(n), Abs(d))
        sgn == IF d < 0 THEN -1 ELSE 1
    IN  PyFloat(sgn * (n \div g), Abs(d) \div g)

PyIsFloat(x, y) == x.py = "float" \/ y.py = "float"

\* a Python number of value n/d: a float when an operand was one
PyResult(float, n, d) == IF float THEN PyFrac(n, d) ELSE PyInt(n \div d)

PyEq(x, y) == x.n * y.d = y.n * x.d

PyLt(x, y) == x.n * y.d < y.n * x.d

PyAdd(x, y) == PyResult(PyIsFloat(x, y), x.n * y.d + y.n * x.d, x.d * y.d)

PySub(x, y) == PyResult(PyIsFloat(x, y), x.n * y.d - y.n * x.d, x.d * y.d)

PyMul(x, y) == PyResult(PyIsFloat(x, y), x.n * y.n, x.d * y.d)

\* x / y, y # 0: always a float
PyTrueDiv(x, y) == PyFrac(x.n * y.d, x.d * y.n)

\* floor(x / y), y # 0
PyFloorQuot(x, y) ==
    LET q == PyFrac(x.n * y.d, x.d * y.n) IN q.n \div q.d

\* x // y, y # 0
PyFloorDiv(x, y) == PyResult(PyIsFloat(x, y), PyFloorQuot(x, y), 1)

\* x % y, y # 0: x - y * floor(x / y)
PyMod(x, y) == PySub(x, PyMul(y, PyResult(PyIsFloat(x, y), PyFloorQuot(x, y), 1)))

RECURSIVE IntPow(_, _)
IntPow(b, e) == IF e = 0 THEN 1 ELSE b * IntPow(b, e - 1)

\* floats born of a root are held to 1/RootScale
RootScale == 100

\* the largest k with (k / RootScale) ^ q <= n / d, for n / d >= 0
RootFloor(n, d, q) ==
    CHOOSE k \in 0..(RootScale * (n + 1)) :
        /\ IntPow(k, q) * d <= n * IntPow(RootScale, q)
        /\ IntPow(k + 1, q) * d > n * IntPow(RootScale, q)

\* x ** y: the number, or the exception Python raises.  A negative base with
\* a fractional exponent gives a complex, which Number.__init__ cannot hold
\* (int(val) raises TypeError).
PyPow(x, y) ==
    LET e == Abs(y.n)
        num == IntPow(Abs(x.n), e)
        den == IntPow(x.d, e)
        sgn == IF x.n < 0 /\ e % 2 = 1 THEN -1 ELSE 1
    IN  IF x.n = 0 /\ y.n < 0
        THEN [exc |-> "ZeroDivisionError", val |-> PyInt(0)]
        ELSE IF y.d = 1
        THEN IF y.n >= 0
             THEN [exc |-> NoError,
                   val |-> PyResult(PyIsFloat(x, y), sgn * num, den)]
             ELSE [exc |-> NoError, val |-> PyFrac(sgn * den, num)]
        ELSE IF x.n < 0
        THEN [exc |-> "TypeError", val |-> PyInt(0)]
        ELSE [exc |-> NoError,
              val |-> IF y.n >= 0
                      THEN PyFrac(RootFloor(num, den, y.d), RootScale)
                      ELSE PyFrac(RootFloor(den, num, y.d), RootScale)]

(***************************************************************************)
(* value.py: the Value variants, as records tagged with their type_name.   *)
(* A str payload is held as the sequence of its code points.               *)
(***************************************************************************)
NoValue == [type |-> "<none>"]

Empty == [type |-> "()"]

Boolean(b) == [type |-> "boolean", _bool |-> b]

String(s) == [type |-> "string", _str |-> s]

\* Number.__init__: an int is kept; a float is kept when it is not whole and
\* stored as the int otherwise
Number(val) ==
    IF val.py = "int" \/ ~PyIsWhole(val)
    THEN [type |-> "number", _val |-> val]
    ELSE [type |-> "number", _val |-> PyInt(PyTrunc(val))]

(***************************************************************************)
(* errors.py: the outcome of a call is the value it returns or the         *)
(* exception it raises (its class and message); "" is no exception.        *)
(***************************************************************************)
Return(v) == [exc |-> NoError, err |-> NoError, value |-> v]

XbRuntimeError(message) ==
    [exc |-> "XbRuntimeError", err |-> message, value |-> NoValue]

\* an exception of the host language that is not an XbError
HostException(class) == [exc |-> class, err |-> class, value |-> NoValue]

(***************************************************************************)
(* value.py: the methods of the Value variants.  A method the variant does *)
(* not override is Value's, which raises "does not support".               *)
(***************************************************************************)
Array(vals) == [type |-> "array", _list |-> vals]

ObjectEntry(value, is_const) == [value |-> value, is_const |-> is_const]

Object(d) == [type |-> "object", _dict |-> d]

NotSupported(self, what) ==
    XbRuntimeError("type '" \o self.type \o "' does not support " \o what)

\* Boolean.cast(value)._bool
BooleanCast(value) ==
    IF value.type = "()" \/ (value.type = "boolean" /\ ~value._bool)
    THEN Boolean(FALSE)
    ELSE Boolean(TRUE)

\* Value.__bool__
Truthy(value) == BooleanCast(value)._bool

\* str < str: lexicographic on code points
RECURSIVE StrLt(_, _)
StrLt(x, y) ==
    IF y = <<>> THEN FALSE
    ELSE IF x = <<>> THEN TRUE
    ELSE IF Head(x) # Head(y) THEN Head(x) < Head(y)
    ELSE StrLt(Tail(x), Tail(y))

Min(a, b) == IF a <= b THEN a ELSE b

RECURSIVE OpEq(_, _)

\* Array.eq: len_eq and all(Op.eq(s, o) for s, o in zip(...)); Op.eq raises
\* for no variant, each of them overriding eq
ArrayEq(self, other) ==
    Return(Boolean(
        /\ \A i \in 1..Min(Len(self._list), Len(other._list)) :
              Truthy(OpEq(self._list[i], other._list[i]).value)
        /\ Len(self._list) = Len(other._list)))

\* Object.eq
ObjectEq(self, other) ==
    Return(Boolean(
        /\ \A k \in DOMAIN self._dict :
              /\ k \in DOMAIN other._dict
              /\ self._dict[k].is_const = other._dict[k].is_const
              /\ Truthy(OpEq(self._dict[k].value, other._dict[k].value).value)
        /\ Cardinality(DOMAIN self._dict) = Cardinality(DOMAIN other._dict)))

\* a.eq(b)
ValueEq(self, other) ==
    CASE self.type = "()" -> Return(Boolean(TRUE))
      [] self.type = "boolean" -> Return(Boolean(self._bool = other._bool))
      [] self.type = "string" -> Return(Boolean(self._str = other._str))
      [] self.type = "number" -> Return(Boolean(PyEq(self._val, other._val)))
      [] self.type = "array" -> ArrayEq(self, other)
      [] self.type = "object" -> ObjectEq(self, other)
      [] OTHER -> NotSupported(self, "equality comparison")

\* a.lt(b)
ValueLt(self, other) ==
    CASE self.type = "string" -> Return(Boolean(StrLt(self._str, other._str)))
      [] self.type = "number" -> Return(Boolean(PyLt(self._val, other._val)))
      [] OTHER -> NotSupported(self, "ordering")

\* a.gt(b)
ValueGt(self, other) ==
    CASE self.type = "string" -> Return(Boolean(StrLt(other._str, self._str)))
      [] self.type = "number" -> Return(Boolean(PyLt(other._val, self._val)))
      [] OTHER -> NotSupported(self, "ordering")

\* a.add(b)
ValueAdd(self, other) ==
    CASE self.type = "string" -> Return(String(self._str \o other._str))
      [] self.type = "number" -> Return(Number(PyAdd(self._val, other._val)))
      [] OTHER -> NotSupported(self, "addition")

\* a.sub(b)
ValueSub(self, other) ==
    CASE self.type = "number" -> Return(Number(PySub(self._val, other._val)))
      [] OTHER -> NotSupported(self, "subtraction")

\* a.mul(b)
ValueMul(self, other) ==
    CASE self.type = "number" -> Return(Number(PyMul(self._val, other._val)))
      [] OTHER -> NotSupported(self, "multiplication")

\* a.div(b)
ValueDiv(self, other) ==
    CASE self.type = "number" ->
            IF other._val.n = 0 THEN XbRuntimeError("division by 0")
            ELSE Return(Number(PyTrueDiv(self._val, other._val)))
      [] OTHER -> NotSupported(self, "division")

\* a.int_div(b)
ValueIntDiv(self, other) ==
    CASE self.type = "number" ->
            IF other._val.n = 0 THEN XbRuntimeError("division by 0")
            ELSE Return(Number(PyFloorDiv(self._val, other._val)))
      [] OTHER -> NotSupported(self, "integer division")

\* a.mod(b)
ValueMod(self, other) ==
    CASE self.type = "number" ->
            IF other._val.n = 0 THEN XbRuntimeError("division by 0")
            ELSE Return(Number(PyMod(self._val, other._val)))
      [] OTHER -> NotSupported(self, "modulo")

\* a.pow(b): Number(self._val ** other._val)
ValuePow(self, other) ==
    CASE self.type = "number" ->
            LET p == PyPow(self._val, other._val) IN
            IF p.exc # NoError THEN HostException(p.exc)
            ELSE Return(Number(p.val))
      [] OTHER -> NotSupported(self, "exponentiation")

\* a.neg()
ValueNeg(self) ==
    CASE self.type = "number" -> Return(Number(PySub(PyInt(0), self._val)))
      [] OTHER -> NotSupported(self, "negation")

\* _validate_index without the test for a negative index
ValidateIndexNoNegativeTest(self, index) ==
    IF index.type # "number"
    THEN XbRuntimeError("cannot index type '" \o self.type
                        \o "' with type '" \o index.type \o "'")
    ELSE IF index._val.py # "int"
    THEN XbRuntimeError(self.type \o " index must be a positive integer")
    ELSE IF index._val.n >= Len(self._list)
    THEN XbRuntimeError(self.type \o " index out of range")
    ELSE Return(index._val)

\* Array._validate_index: the validated index, or the error
ValidateIndex(self, index) ==
    IF index.type # "number"
    THEN XbRuntimeError("cannot index type '" \o self.type
                        \o "' with type '" \o index.type \o "'")
    ELSE IF index._val.py # "int" \/ index._val.n < 0
    THEN XbRuntimeError(self.type \o " index must be a positive integer")
    ELSE IF index._val.n >= Len(self._list)
    THEN XbRuntimeError(self.type \o " index out of range")
    ELSE Return(index._val)

\* list[i] of Python, i an int: a negative i counts from the end; the place
\* in the sequence, 0 when list[i] raises IndexError
PyListPlace(list, i) ==
    IF 0 <= i /\ i < Len(list) THEN i + 1
    ELSE IF i < 0 /\ -i <= Len(list) THEN Len(list) + i + 1
    ELSE 0

\* target.index_get(index)
ValueIndexGet(self, index) ==
    CASE self.type = "array" ->
            LET i == ValidateIndex(self, index) IN
            IF i.err # NoError THEN i
            ELSE IF PyListPlace(self._list, i.value.n) = 0
                 THEN HostException("IndexError")
                 ELSE Return(self._list[PyListPlace(self._list, i.value.n)])
      [] OTHER -> NotSupported(self, "index access")

\* target.index_set(index, item): the target after the call, and the outcome
ValueIndexSet(self, index, item) ==
    CASE self.type = "array" ->
            LET i == ValidateIndex(self, index) IN
            IF i.err # NoError THEN [self |-> self, ret |-> i]
            ELSE IF PyListPlace(self._list, i.value.n) = 0
                 THEN [self |-> self, ret |-> HostException("IndexError")]
                 ELSE [self |-> [self EXCEPT
                                   !._list[PyListPlace(self._list, i.value.n)] = item],
                       ret |-> Return(NoValue)]
      [] OTHER -> [self |-> self, ret |-> NotSupported(self, "index assignment")]

\* Object._validate_key
ValidateKey(self, key) ==
    IF key \notin DOMAIN self._dict
    THEN XbRuntimeError("unrecognized key \"" \o key \o "\"")
    ELSE Return(NoValue)

\* target.key_get(key)
ValueKeyGet(self, key) ==
    CASE self.type = "object" ->
            IF ValidateKey(self, key).err # NoError THEN ValidateKey(self, key)
            ELSE Return(self._dict[key].value)
      [] OTHER -> NotSupported(self, "key access")

\* key_set without the is_const test
ValueKeySetNoConstTest(self, key, item) ==
    CASE self.type = "object" ->
            IF ValidateKey(self, key).err # NoError
            THEN [self |-> self, ret |-> ValidateKey(self, key)]
            ELSE [self |-> [self EXCEPT !._dict[key].value = item],
                  ret |-> Return(NoValue)]
      [] OTHER -> [self |-> self, ret |-> NotSupported(self, "key assignment")]

\* target.key_set(key, item): the target after the call, and the outcome
ValueKeySet(self, key, item) ==
    CASE self.type = "object" ->
            IF ValidateKey(self, key).err # NoError
            THEN [self |-> self, ret |-> ValidateKey(self, key)]
            ELSE IF self._dict[key].is_const
            THEN [self |-> self,
                  ret |-> XbRuntimeError("field \"" \o key \o "\" is constant")]
            ELSE [self |-> [self EXCEPT !._dict[key].value = item],
                  ret |-> Return(NoValue)]
      [] OTHER -> [self |-> self, ret |-> NotSupported(self, "key assignment")]

(***************************************************************************)
(* value.py: the Op facade.                                                *)
(***************************************************************************)
\* Op._types_match
TypesMatch(a, b) == a.type = b.type

\* Op._type_guard: the error raised, NoError when the types match
TypeGuard(a, b, op_name) ==
    IF ~TypesMatch(a, b)
    THEN XbRuntimeError("cannot " \o op_name \o " types '" \o a.type
                        \o "' and '" \o b.type \o "'")
    ELSE Return(NoValue)

\* Op.eq behind the type guard of the other operations
OpEqGuarded(a, b) ==
    IF TypeGuard(a, b, "compare").err # NoError
    THEN TypeGuard(a, b, "compare") ELSE ValueEq(a, b)

\* Op.eq
OpEq(a, b) ==
    IF ~TypesMatch(a, b) THEN Return(Boolean(FALSE)) ELSE ValueEq(a, b)

\* Op.not_
OpNot(a) == Return(Boolean(~BooleanCast(a)._bool))

\* Op.not_(r) for the outcome r of the inner call, whose exception propagates
NotOf(r) == IF r.err # NoError THEN r ELSE OpNot(r.value)

\* Op.neq
OpNeq(a, b) == NotOf(OpEq(a, b))

\* Op.lt
OpLt(a, b) ==
    IF TypeGuard(a, b, "compare").err # NoError
    THEN TypeGuard(a, b, "compare") ELSE ValueLt(a, b)

\* Op.gt
OpGt(a, b) ==
    IF TypeGuard(a, b, "compare").err # NoError
    THEN TypeGuard(a, b, "compare") ELSE ValueGt(a, b)

\* Op.lte as Op.lt
OpLteAsLt(a, b) == OpLt(a, b)

\* Op.lte
OpLte(a, b) == NotOf(OpGt(a, b))

\* Op.gte
OpGte(a, b) == NotOf(OpLt(a, b))

\* Op.add asking the variant of a for the operation before guarding the types
OpAddSupportFirst(a, b) ==
    IF a.type \notin {"number", "string"} THEN NotSupported(a, "addition")
    ELSE IF TypeGuard(a, b, "add").err # NoError
    THEN TypeGuard(a, b, "add") ELSE ValueAdd(a, b)

\* Op.add
OpAdd(a, b) ==
    IF TypeGuard(a, b, "add").err # NoError
    THEN TypeGuard(a, b, "add") ELSE ValueAdd(a, b)

\* Op.sub
OpSub(a, b) ==
    IF TypeGuard(a, b, "subtract").err # NoError
    THEN TypeGuard(a, b, "subtract") ELSE ValueSub(a, b)

\* Op.mul
OpMul(a, b) ==
    IF TypeGuard(a, b, "multiply").err # NoError
    THEN TypeGuard(a, b, "multiply") ELSE ValueMul(a, b)

\* Op.div
OpDiv(a, b) ==
    IF TypeGuard(a, b, "divide").err # NoError
    THEN TypeGuard(a, b, "divide") ELSE ValueDiv(a, b)

\* Op.int_div
OpIntDiv(a, b) ==
    IF TypeGuard(a, b, "integer divide").err # NoError
    THEN TypeGuard(a, b, "integer divide") ELSE ValueIntDiv(a, b)

\* Op.mod
OpMod(a, b) ==
    IF TypeGuard(a, b, "mod").err # NoError
    THEN TypeGuard(a, b, "mod") ELSE ValueMod(a, b)

\* Op.pow
OpPow(a, b) ==
    IF TypeGuard(a, b, "exponentiate").err # NoError
    THEN TypeGuard(a, b, "exponentiate") ELSE ValuePow(a, b)

\* Op.neg
OpNeg(a) == ValueNeg(a)

(***************************************************************************)
(* environment.py                                                          *)
(***************************************************************************)
None == 0

Names == {"a", "b"}

EnvValues == {Number(PyInt(5)), Number(PyInt(6))}

EnvironmentEntry(value, is_const) == [value |-> value, is_const |-> is_const]

\* Environment.__init__
NewEnvironment(parent) == [parent |-> parent, _dict |-> <<>>]

MsgNotRecognized(name) == "name '" \o name \o "' not recognized in this scope"

MsgIsConstant(name) == "name '" \o name \o "' is constant"

MsgAlreadyBound(name) == "name '" \o name \o "' is already bound"

\* __getitem__ asking the parent first, so that the outermost binding wins
RECURSIVE GetItemOutermost(_, _, _)
GetItemOutermost(es, self, name) ==
    LET up == IF es[self].parent # None
              THEN GetItemOutermost(es, es[self].parent, name)
              ELSE XbRuntimeError(MsgNotRecognized(name))
    IN  IF up.err = NoError THEN up
        ELSE IF name \in DOMAIN es[self]._dict
             THEN Return(es[self]._dict[name].value)
             ELSE up

\* Environment.__getitem__
RECURSIVE GetItem(_, _, _)
GetItem(es, self, name) ==
    IF name \in DOMAIN es[self]._dict
    THEN Return(es[self]._dict[name].value)
    ELSE IF es[self].parent # None
         THEN GetItem(es, es[self].parent, name)
         ELSE XbRuntimeError(MsgNotRecognized(name))

\* __setitem__ without the is_const test
RECURSIVE SetItemNoConstTest(_, _, _, _)
SetItemNoConstTest(es, self, name, value) ==
    IF name \in DOMAIN es[self]._dict
    THEN [envs |-> [es EXCEPT ![self]._dict[name].value = value],
          err |-> NoError]
    ELSE IF es[self].parent # None
         THEN SetItemNoConstTest(es, es[self].parent, name, value)
         ELSE [envs |-> es, err |-> MsgNotRecognized(name)]

\* __setitem__ binding an unbound name in the current frame when an ancestor
\* binds it, instead of walking up
SetItemLocal(es, self, name, value) ==
    IF name \in DOMAIN es[self]._dict
    THEN IF es[self]._dict[name].is_const
         THEN [envs |-> es, err |-> MsgIsConstant(name)]
         ELSE [envs |-> [es EXCEPT ![self]._dict[name].value = value],
               err |-> NoError]
    ELSE IF es[self].parent # None
              /\ GetItem(es, es[self].parent, name).err = NoError
         THEN [envs |-> [es EXCEPT ![self]._dict =
                            [k \in DOMAIN es[self]._dict \cup {name} |->
                                IF k = name THEN EnvironmentEntry(value, FALSE)
                                ELSE es[self]._dict[k]]],
               err |-> NoError]
         ELSE [envs |-> es, err |-> MsgNotRecognized(name)]

\* Environment.__setitem__: the frames after the call, and the error raised
RECURSIVE SetItem(_, _, _, _)
SetItem(es, self, name, value) ==
    IF name \in DOMAIN es[self]._dict
    THEN IF es[self]._dict[name].is_const
         THEN [envs |-> es, err |-> MsgIsConstant(name)]
         ELSE [envs |-> [es EXCEPT ![self]._dict[name].value = value],
               err |-> NoError]
    ELSE IF es[self].parent # None
         THEN SetItem(es, es[self].parent, name, value)
         ELSE [envs |-> es, err |-> MsgNotRecognized(name)]

\* a declaration that replaces a binding the current frame already holds
DeclareOverwriting(es, self, name, value, is_const) ==
    [envs |-> [es EXCEPT ![self]._dict =
                    [k \in DOMAIN es[self]._dict \cup {name} |->
                        IF k = name THEN EnvironmentEntry(value, is_const)
                        ELSE es[self]._dict[k]]],
     err |-> NoError]

\* the body shared by declare_const and declare_var
Declare(es, self, name, value, is_const) ==
    IF name \in DOMAIN es[self]._dict
    THEN [envs |-> es, err |-> MsgAlreadyBound(name)]
    ELSE [envs |-> [es EXCEPT ![self]._dict =
                        [k \in DOMAIN es[self]._dict \cup {name} |->
                            IF k = name THEN EnvironmentEntry(value, is_const)
                            ELSE es[self]._dict[k]]],
          err |-> NoError]

\* Environment.declare_const
DeclareConst(es, self, name, value) == Declare(es, self, name, value, TRUE)

\* Environment.declare_var
DeclareVar(es, self, name, value) == Declare(es, self, name, value, FALSE)

EnvRet(op, self, name, arg, r) ==
    [op |-> op, env |-> self, name |-> name, arg |-> arg,
     err |-> r.err, value |-> r.value]

\* the number of bindings held by all frames together
RECURSIVE Bindings(_)
Bindings(es) ==
    IF es = <<>> THEN 0
    ELSE Cardinality(DOMAIN Head(es)._dict) + Bindings(Tail(es))

\* the parts of the state a specification of another part leaves alone
EnvIdle ==
    /\ envs = <<>>
    /\ envRet = EnvRet("idle", None, "", NoValue, Return(NoValue))

ObjIdle ==
    /\ obj = Object(<<>>)
    /\ objRet = [op |-> "idle", key |-> "", arg |-> NoValue, ret |-> Return(NoValue)]

ArrIdle ==
    /\ arr = Array(<<>>)
    /\ arrRet = [op |-> "idle", index |-> NoValue, arg |-> NoValue,
                 ret |-> Return(NoValue)]

OpIdle ==
    /\ opA = NoValue
    /\ opB = NoValue
    /\ opName = "idle"
    /\ opRet = Return(NoValue)

EvalIdle ==
    /\ heap = <<>>
    /\ evRet = [prog |-> [node |-> "None"], ret |-> Return(NoValue)]
    /\ pc = "idle"

InitEnv ==
    /\ envs = <<NewEnvironment(None)>>
    /\ envRet = EnvRet("init", 1, "", NoValue, Return(NoValue))
    /\ ObjIdle /\ ArrIdle /\ OpIdle /\ EvalIdle

\* inner_env = Environment(env), env the innermost frame (the frames form the
\* linked stack that nested blocks build)
EnvNew ==
    /\ Len(envs) < MaxEnvs
    /\ envs' = Append(envs, NewEnvironment(Len(envs)))
    /\ envRet' = EnvRet("new", Len(envs) + 1, "", NoValue, Return(NoValue))
    /\ UNCHANGED notEnvVars

\* env[name]
EnvGet ==
    \E self \in 1..Len(envs), name \in Names :
        /\ envRet' = EnvRet("getitem", self, name, NoValue, GetItem(envs, self, name))
        /\ UNCHANGED envs
        /\ UNCHANGED notEnvVars

\* env[name] = value
EnvSet ==
    \E self \in 1..Len(envs), name \in Names, value \in EnvValues :
        LET r == SetItem(envs, self, name, value) IN
        /\ envs' = r.envs
        /\ envRet' = EnvRet("setitem", self, name, value,
                            [err |-> r.err, value |-> NoValue])
        /\ UNCHANGED notEnvVars

\* env.declare_const(name, value)
EnvDeclareConst ==
    \E self \in 1..Len(envs), name \in Names, value \in EnvValues :
        LET r == DeclareConst(envs, self, name, value) IN
        /\ Bindings(r.envs) <= MaxBindings
        /\ envs' = r.envs
        /\ envRet' = EnvRet("declare_const", self, name, value,
                            [err |-> r.err, value |-> NoValue])
        /\ UNCHANGED notEnvVars

\* env.declare_var(name, value)
EnvDeclareVar ==
    \E self \in 1..Len(envs), name \in Names, value \in EnvValues :
        LET r == DeclareVar(envs, self, name, value) IN
        /\ Bindings(r.envs) <= MaxBindings
        /\ envs' = r.envs
        /\ envRet' = EnvRet("declare_var", self, name, value,
                            [err |-> r.err, value |-> NoValue])
        /\ UNCHANGED notEnvVars

NextEnv == EnvNew \/ EnvGet \/ EnvSet \/ EnvDeclareConst \/ EnvDeclareVar

SpecEnv == InitEnv /\ [][NextEnv]_vars

(***************************************************************************)
(* ast.py: the tree-walking evaluator.  It computes on the host's own      *)
(* values: None, bool, float, str (held as code points), and list and dict *)
(* objects, which live on a heap and are held by reference.                *)
(***************************************************************************)
PyNone == [py |-> "NoneType"]

PyBool(b) == [py |-> "bool", b |-> b]

PyStr(s) == [py |-> "str", s |-> s]

\* a reference to the list or dict object heap[ref]
PyRef(type, ref) == [py |-> type, ref |-> ref]

PyDict(items) == [py |-> "dict", items |-> items]

\* the state an evaluation runs in: the Environment objects and the heap
EvalState(es, h) == [envs |-> es, heap |-> h]

Result(st, ret) == [st |-> st, ret |-> ret]

IsDigit(c) == 48 <= c /\ c <= 57

AllDigits(s) == \A i \in 1..Len(s) : IsDigit(s[i])

RECURSIVE DigitsValue(_)
DigitsValue(s) ==
    IF s = <<>> THEN 0
    ELSE 10 * DigitsValue(SubSeq(s, 1, Len(s) - 1)) + (s[Len(s)] - 48)

\* the first place of s holding a code point of cs, 0 when there is none
IndexOf(s, cs) ==
    LET at == {i \in 1..Len(s) : s[i] \in cs} IN
    IF at = {} THEN 0 ELSE CHOOSE i \in at : \A j \in at : i <= j

NotANumber == [ok |-> FALSE, n |-> 0, d |-> 1]

\* digits [ "." digits ]
ParseDecimal(s) ==
    LET p == IndexOf(s, {46})
        whole == IF p = 0 THEN s ELSE SubSeq(s, 1, p - 1)
        frac == IF p = 0 THEN <<>> ELSE SubSeq(s, p + 1, Len(s))
    IN  IF AllDigits(whole) /\ AllDigits(frac) /\ Len(whole) + Len(frac) > 0
        THEN [ok |-> TRUE,
              n |-> DigitsValue(whole) * IntPow(10, Len(frac)) + DigitsValue(frac),
              d |-> IntPow(10, Len(frac))]
        ELSE NotANumber

\* [ "+" | "-" ] decimal
ParseSigned(s) ==
    IF s # <<>> /\ s[1] \in {43, 45}
    THEN LET u == ParseDecimal(Tail(s)) IN
         IF s[1] = 45 THEN [u EXCEPT !.n = -u.n] ELSE u
    ELSE ParseDecimal(s)

\* float(token): signed decimal [ ("e" | "E") signed digits ]; a hexadecimal
\* literal such as 0xFF is no float and raises ValueError
PyFloatOfStr(s) ==
    LET e == IndexOf(s, {101, 69})
        m == ParseSigned(IF e = 0 THEN s ELSE SubSeq(s, 1, e - 1))
        x == IF e = 0 THEN [ok |-> TRUE, n |-> 0, d |-> 1]
             ELSE ParseSigned(SubSeq(s, e + 1, Len(s)))
    IN  IF ~m.ok \/ ~x.ok \/ x.d # 1
        THEN [exc |-> "ValueError", val |-> PyFloat(0, 1)]
        ELSE [exc |-> NoError,
              val |-> IF x.n >= 0 THEN PyFrac(m.n * IntPow(10, x.n), m.d)
                      ELSE PyFrac(m.n, m.d * IntPow(10, -x.n))]

\* the syntax tree nodes
AstBlock(exprs) == [node |-> "Block", exprs |-> exprs]

AstConstDecl(ident, expr) == [node |-> "ConstDecl", ident |-> ident, expr |-> expr]

AstVarDecl(ident, expr) == [node |-> "VarDecl", ident |-> ident, expr |-> expr]

AstAssign(target, expr) == [node |-> "Assign", target |-> target, expr |-> expr]

AstKeyAccess(lhs, key) == [node |-> "KeyAccess", lhs |-> lhs, key |-> key]

AstIdentifier(token) == [node |-> "Identifier", token |-> token]

AstKey(token) == [node |-> "Key", token |-> token]

AstNestedBlock(block) == [node |-> "NestedBlock", block |-> block]

AstNumber(token) == [node |-> "Number", token |-> token]

AstString(token) == [node |-> "String", token |-> token]

AstBool(token) == [node |-> "Bool", token |-> token]

AstEmpty == [node |-> "Empty"]

AstObject(pairs) == [node |-> "Object", pairs |-> pairs]

AstInferPair(ident) == [node |-> "InferPair", ident |-> ident]

AstConstPair(key, expr) == [node |-> "ConstPair", key |-> key, expr |-> expr]

AstVarPair(key, expr) == [node |-> "VarPair", key |-> key, expr |-> expr]

\* Equal .. GreaterThanOrEqual, And, Or, Add .. Pow and Coalesce: a dataclass
\* of lhs and rhs each
AstBinary(node, lhs, rhs) == [node |-> node, lhs |-> lhs, rhs |-> rhs]

\* Negate and Not
AstUnary(node, val) == [node |-> node, val |-> val]

AstIndexAccess(lhs, index_expr) ==
    [node |-> "IndexAccess", lhs |-> lhs, index_expr |-> index_expr]

AstArray(exprs) == [node |-> "Array", exprs |-> exprs]

\* a None left in a Block's list by an empty separator
AstNoExpr == [node |-> "None"]

\* the code points of "true"
TrueToken == <<116, 114, 117, 101>>

\* d with key bound to value
DictWith(d, key, value) ==
    [k \in DOMAIN d \cup {key} |-> IF k = key THEN value ELSE d[k]]

PyList(items) == [py |-> "list", items |-> items]

\* the complex x ** y of a negative x and a fractional y
PyComplex(x, y) == [py |-> "complex", base |-> x, exp |-> y]

\* A case of the host language this model does not compute: arithmetic on a
\* complex, a dict under IndexAccess, a "%" in the left str of a %, the text
\* of an index that is a str or an aggregate.  No action takes a step that
\* meets one.
Unmodelled == HostException("<unmodelled>")

\* bool is a subclass of int
PyIsNum(v) == v.py \in {"bool", "int", "float"}

PyNum(v) == IF v.py = "bool" THEN PyInt(IF v.b THEN 1 ELSE 0) ELSE v

\* bool(v), the truth value Python's and, or and not test
PyTruth(h, v) ==
    CASE v.py = "NoneType" -> FALSE
      [] v.py = "bool" -> v.b
      [] v.py \in {"int", "float"} -> v.n # 0
      [] v.py = "str" -> v.s # <<>>
      [] v.py = "list" -> h[v.ref].items # <<>>
      [] v.py = "dict" -> DOMAIN h[v.ref].items # {}
      [] OTHER -> TRUE

RECURSIVE PyEquals(_, _, _, _)
\* the first place where the lists xs and ys hold items that are not equal
\* (0: none in their common prefix), and what the comparison there gave
FirstDiff(h, xs, ys, fuel) ==
    LET ds == {i \in 1..Min(Len(xs), Len(ys)) :
                   PyEquals(h, xs[i], ys[i], fuel) # "True"}
        k == CHOOSE i \in ds : \A j \in ds : i <= j
    IN  IF ds = {} THEN [at |-> 0, how |-> "True"]
        ELSE [at |-> k, how |-> PyEquals(h, xs[k], ys[k], fuel)]

\* x == y: "True", "False", or "RecursionError" when the comparison descends
\* more levels than the heap has objects, as it does on a cyclic aggregate
PyEquals(h, x, y, fuel) ==
    IF fuel = 0 THEN "RecursionError"
    ELSE CASE PyIsNum(x) /\ PyIsNum(y) ->
                 IF PyEq(PyNum(x), PyNum(y)) THEN "True" ELSE "False"
           [] x.py = "str" /\ y.py = "str" ->
                 IF x.s = y.s THEN "True" ELSE "False"
           [] x.py = "NoneType" /\ y.py = "NoneType" -> "True"
           [] x.py = "list" /\ y.py = "list" ->
                 LET xs == h[x.ref].items
                     ys == h[y.ref].items
                 IN  IF x.ref = y.ref THEN "True"
                     ELSE IF Len(xs) # Len(ys) THEN "False"
                     ELSE FirstDiff(h, xs, ys, fuel - 1).how
           [] x.py = "dict" /\ y.py = "dict" ->
                 LET xd == h[x.ref].items
                     yd == h[y.ref].items
                     rs == {PyEquals(h, xd[k], yd[k], fuel - 1) :
                                k \in DOMAIN xd \cap DOMAIN yd}
                 IN  IF x.ref = y.ref THEN "True"
                     ELSE IF DOMAIN xd # DOMAIN yd \/ "False" \in rs THEN "False"
                     ELSE IF rs \subseteq {"True"} THEN "True"
                     ELSE CHOOSE r \in rs : r # "True"
           [] x.py = "complex" /\ y.py = "complex" ->
                 IF x = y THEN "True" ELSE Unmodelled.exc
           [] OTHER -> "False"

\* the order test of a rich comparison, as lt tells it for the operands
OrderTest(op, lt, gt) ==
    CASE op = "LessThan" -> lt
      [] op = "GreaterThan" -> gt
      [] op = "LessThanOrEqual" -> ~gt
      [] op = "GreaterThanOrEqual" -> ~lt

RECURSIVE PyCompare(_, _, _, _, _)
\* x < y, x > y, x <= y, x >= y: numbers by value, strs and lists
\* lexicographically, anything else a TypeError
PyCompare(op, h, x, y, fuel) ==
    IF fuel = 0 THEN HostException("RecursionError")
    ELSE CASE PyIsNum(x) /\ PyIsNum(y) ->
                 Return(PyBool(OrderTest(op, PyLt(PyNum(x), PyNum(y)),
                                             PyLt(PyNum(y), PyNum(x)))))
           [] x.py = "str" /\ y.py = "str" ->
                 Return(PyBool(OrderTest(op, StrLt(x.s, y.s), StrLt(y.s, x.s))))
           [] x.py = "list" /\ y.py = "list" ->
                 LET xs == h[x.ref].items
                     ys == h[y.ref].items
                     k == FirstDiff(h, xs, ys, fuel - 1)
                 IN  IF k.how \notin {"True", "False"} THEN HostException(k.how)
                     ELSE IF k.at = 0
                     THEN Return(PyBool(OrderTest(op, Len(xs) < Len(ys),
                                                      Len(xs) > Len(ys))))
                     ELSE PyCompare(op, h, xs[k.at], ys[k.at], fuel - 1)
           [] OTHER -> HostException("TypeError")

RECURSIVE PyRepeat(_, _)
\* s * n for a str or the items of a list
PyRepeat(s, n) == IF n <= 0 THEN <<>> ELSE s \o PyRepeat(s, n - 1)

\* the heap with a new list of the items, and the reference to it
NewList(h, items) ==
    [heap |-> Append(h, PyList(items)),
     ret |-> Return(PyRef("list", Len(h) + 1))]

\* x op y on two numbers
NumArith(op, x, y) ==
    CASE op = "Add" -> Return(PyAdd(x, y))
      [] op = "Subtract" -> Return(PySub(x, y))
      [] op = "Multiply" -> Return(PyMul(x, y))
      [] op \in {"Divide", "IntegerDivide", "Remainder", "Mod"} /\ y.n = 0 ->
            HostException("ZeroDivisionError")
      [] op = "Divide" -> Return(PyTrueDiv(x, y))
      [] op = "IntegerDivide" -> Return(PyFloorDiv(x, y))
      [] op \in {"Remainder", "Mod"} -> Return(PyMod(x, y))
      [] op = "Pow" ->
            IF x.n = 0 /\ y.n < 0 THEN HostException("ZeroDivisionError")
            ELSE IF x.n < 0 /\ y.d # 1 THEN Return(PyComplex(x, y))
            ELSE Return(PyPow(x, y).val)

\* s * n or n * s for a str or list s and an int n
SeqRepeat(h, s, n) ==
    IF s.py = "str" THEN [heap |-> h, ret |-> Return(PyStr(PyRepeat(s.s, n.n)))]
    ELSE NewList(h, PyRepeat(h[s.ref].items, n.n))

\* x + y, x - y, x * y, x / y, x // y, x % y, x ** y: the heap after it and
\* the outcome
PyArith(op, h, x, y) ==
    LET same(r) == [heap |-> h, ret |-> r] IN
    CASE x.py = "complex" \/ y.py = "complex" -> same(Unmodelled)
      [] PyIsNum(x) /\ PyIsNum(y) -> same(NumArith(op, PyNum(x), PyNum(y)))
      [] op = "Add" /\ x.py = "str" /\ y.py = "str" ->
            same(Return(PyStr(x.s \o y.s)))
      [] op = "Add" /\ x.py = "list" /\ y.py = "list" ->
            NewList(h, h[x.ref].items \o h[y.ref].items)
      [] op = "Multiply" /\ x.py \in {"str", "list"} /\ y.py \in {"bool", "int"} ->
            SeqRepeat(h, x, PyNum(y))
      [] op = "Multiply" /\ y.py \in {"str", "list"} /\ x.py \in {"bool", "int"} ->
            SeqRepeat(h, y, PyNum(x))
      [] op \in {"Remainder", "Mod"} /\ x.py = "str" ->
            \* str formatting: a str without conversions takes a mapping
            IF \E i \in 1..Len(x.s) : x.s[i] = 37 THEN same(Unmodelled)
            ELSE IF y.py \in {"list", "dict"} THEN same(Return(x))
            ELSE same(HostException("TypeError"))
      [] OTHER -> same(HostException("TypeError"))

CompareNodes ==
    {"LessThan", "GreaterThan", "LessThanOrEqual", "GreaterThanOrEqual"}

ArithNodes ==
    {"Add", "Subtract", "Multiply", "Divide", "IntegerDivide", "Remainder",
     "Mod", "Pow"}

BinaryNodes == {"Equal", "NotEqual"} \cup CompareNodes \cup ArithNodes

\* the operator of a binary node applied to the values of its operands
PyBinary(op, h, x, y) ==
    LET same(r) == [heap |-> h, ret |-> r]
        e == PyEquals(h, x, y, Len(h) + 1)
    IN  CASE op \in {"Equal", "NotEqual"} ->
                IF e \notin {"True", "False"} THEN same(HostException(e))
                ELSE same(Return(PyBool((e = "True") = (op = "Equal"))))
          [] op \in CompareNodes -> same(PyCompare(op, h, x, y, Len(h) + 1))
          [] op \in ArithNodes -> PyArith(op, h, x, y)

\* left is not None with the truth of left tested in its place
IsNotNoneByTruth(h, left) == PyTruth(h, left)

\* left is not None
IsNotNone(h, left) == left.py # "NoneType"

\* -x
PyNegative(x) ==
    IF PyIsNum(x) THEN Return(PySub(PyInt(0), PyNum(x)))
    ELSE IF x.py = "complex" THEN Unmodelled
    ELSE HostException("TypeError")

\* the place of a list or str of length n that the int i names, 0 when none:
\* a negative i counts from the end
PyPlace(n, i) ==
    IF 0 <= i /\ i < n THEN i + 1
    ELSE IF -n <= i /\ i < 0 THEN n + i + 1
    ELSE 0

\* target[key] of Python for a str key
PyGetKey(h, target, key) ==
    IF target.py = "dict"
    THEN IF key \in DOMAIN h[target.ref].items
         THEN Return(h[target.ref].items[key])
         ELSE HostException("KeyError")
    ELSE HostException("TypeError")

\* target[key] = v of Python for a str key: the heap after it, and the outcome
PySetKey(h, target, key, v) ==
    IF target.py = "dict"
    THEN [heap |-> [h EXCEPT ![target.ref].items = DictWith(@, key, v)],
          ret |-> Return(PyNone)]
    ELSE [heap |-> h, ret |-> HostException("TypeError")]

\* target[index] of Python for the index that evaluate_index gives
PyGetIndex(h, target, index) ==
    CASE target.py \in {"list", "str"} ->
            LET items == IF target.py = "list" THEN h[target.ref].items
                         ELSE target.s
                p == PyPlace(Len(items), PyNum(index).n)
            IN  IF index.py \notin {"bool", "int"} THEN HostException("TypeError")
                ELSE IF p = 0 THEN HostException("IndexError")
                ELSE IF target.py = "list" THEN Return(items[p])
                ELSE Return(PyStr(<<items[p]>>))
      [] target.py = "dict" ->
            IF index.py \in {"list", "dict"} THEN HostException("TypeError")
            ELSE Unmodelled
      [] OTHER -> HostException("TypeError")

\* target[index] = v writing a copy of the list and not the list
PySetIndexOfCopy(h, target, index, v) ==
    LET same(r) == [heap |-> h, ret |-> r]
        p == PyPlace(Len(h[target.ref].items), PyNum(index).n)
    IN  IF target.py # "list" \/ index.py \notin {"bool", "int"}
        THEN same(HostException("TypeError"))
        ELSE IF p = 0 THEN same(HostException("IndexError"))
        ELSE [heap |-> Append(h, [h[target.ref] EXCEPT !.items[p] = v]),
              ret |-> Return(PyNone)]

\* target[index] = v of Python: the heap after it, and the outcome
PySetIndex(h, target, index, v) ==
    LET same(r) == [heap |-> h, ret |-> r] IN
    CASE target.py = "list" ->
            LET p == PyPlace(Len(h[target.ref].items), PyNum(index).n) IN
            IF index.py \notin {"bool", "int"} THEN same(HostException("TypeError"))
            ELSE IF p = 0 THEN same(HostException("IndexError"))
            ELSE [heap |-> [h EXCEPT ![target.ref].items[p] = v],
                  ret |-> Return(PyNone)]
      [] target.py = "dict" ->
            IF index.py \in {"list", "dict"} THEN same(HostException("TypeError"))
            ELSE same(Unmodelled)
      [] OTHER -> same(HostException("TypeError"))

\* str(index) inside the message of an unsupported index
IndexText(index) ==
    LET digit == <<"1", "2", "3", "4", "5", "6", "7", "8", "9">>
        i == PyNum(index).n
    IN  CASE index.py = "NoneType" -> "None"
          [] index.py = "bool" -> IF index.b THEN "True" ELSE "False"
          [] index.py = "int" /\ i = 0 -> "0"
          [] index.py = "int" /\ i \in 1..9 -> digit[i]
          [] index.py = "int" /\ -i \in 1..9 -> "-" \o digit[-i]
          [] OTHER -> Unmodelled.exc

\* what the except clauses of IndexAccess make of an exception
IndexError(exc, index) ==
    CASE exc \in {"KeyError", "TypeError"} ->
            IF IndexText(index) = Unmodelled.exc THEN Unmodelled
            ELSE XbRuntimeError("unsupported index '" \o IndexText(index) \o "'")
      [] exc = "IndexError" -> XbRuntimeError("index out of range")

\* what the except clauses of KeyAccess.evaluate make of an exception
KeyError(exc, key) ==
    CASE exc = "KeyError" -> XbRuntimeError("unrecognized key '" \o key \o "'")
      [] exc = "TypeError" -> XbRuntimeError("unsupported key '" \o key \o "'")

\* the Assigner made by Identifier.evaluate_assignment_target
NameAssigner(env, token) == [kind |-> "name", env |-> env, token |-> token]

\* the Assigner made by KeyAccess.evaluate_assignment_target
KeyAssigner(target, key) == [kind |-> "key", target |-> target, key |-> key]

\* the Assigner made by IndexAccess.evaluate_assignment_target
IndexAssigner(target, index) ==
    [kind |-> "index", target |-> target, index |-> index]

NoAssigner == [kind |-> "none"]

\* assign(v): the call of an Assigner
Invoke(assign, v, st) ==
    CASE assign.kind = "name" ->
            LET r == SetItem(st.envs, assign.env, assign.token, v) IN
            IF r.err # NoError THEN Result(st, XbRuntimeError(r.err))
            ELSE Result([st EXCEPT !.envs = r.envs], Return(PyNone))
      [] assign.kind = "key" ->
            LET r == PySetKey(st.heap, assign.target, assign.key, v) IN
            IF r.ret.exc = "TypeError"
            THEN Result(st, XbRuntimeError("cannot assign to keys on type '"
                                           \o assign.target.py \o "'"))
            ELSE Result([st EXCEPT !.heap = r.heap], r.ret)
      [] assign.kind = "index" ->
            LET r == PySetIndex(st.heap, assign.target, assign.index, v) IN
            IF r.ret.exc \in {"KeyError", "TypeError", "IndexError"}
            THEN Result(st, IndexError(r.ret.exc, assign.index))
            ELSE Result([st EXCEPT !.heap = r.heap], r.ret)

RECURSIVE Evaluate(_, _, _)
RECURSIVE EvaluateBlock(_, _, _)
RECURSIVE EvaluatePairs(_, _, _, _)
RECURSIVE EvaluateExprs(_, _, _, _)
RECURSIVE EvaluateAssignmentTarget(_, _, _)
RECURSIVE EvaluateAssign(_, _, _)
RECURSIVE EvaluateNestedBlock(_, _, _)

\* Pair.key_value of InferPair, ConstPair and VarPair
KeyValue(pair, env, st) ==
    IF pair.node = "InferPair"
    THEN [key |-> pair.ident.token,
          res |-> Result(st, GetItem(st.envs, env, pair.ident.token))]
    ELSE [key |-> pair.key.token, res |-> Evaluate(pair.expr, env, st)]

\* the dict comprehension of Object.evaluate over the pairs left, d the dict
\* built so far: a later pair overwrites an earlier one of the same key
EvaluatePairs(pairs, d, env, st) ==
    IF pairs = <<>> THEN Result(st, Return(d))
    ELSE LET kv == KeyValue(Head(pairs), env, st) IN
         IF kv.res.ret.exc # NoError THEN kv.res
         ELSE EvaluatePairs(Tail(pairs), DictWith(d, kv.key, kv.res.ret.value),
                            env, kv.res.st)

\* the map of Array.evaluate over the exprs left, items the values so far
EvaluateExprs(exprs, items, env, st) ==
    IF exprs = <<>> THEN Result(st, Return(items))
    ELSE LET r == Evaluate(Head(exprs), env, st) IN
         IF r.ret.exc # NoError THEN r
         ELSE EvaluateExprs(Tail(exprs), Append(items, r.ret.value), env, r.st)

\* Block.evaluate: the statements for their effects, then the last expression
EvaluateBlock(exprs, env, st) ==
    IF exprs = <<>> THEN Result(st, HostException("IndexError"))
    ELSE IF Len(exprs) = 1
    THEN IF Head(exprs) = AstNoExpr THEN Result(st, Return(PyNone))
         ELSE Evaluate(Head(exprs), env, st)
    ELSE IF Head(exprs) = AstNoExpr THEN EvaluateBlock(Tail(exprs), env, st)
    ELSE LET r == Evaluate(Head(exprs), env, st) IN
         IF r.ret.exc # NoError THEN r
         ELSE EvaluateBlock(Tail(exprs), env, r.st)

\* the declaration that ends ConstDecl.evaluate and VarDecl.evaluate
Declaring(node, env, r) ==
    LET d == IF node.node = "ConstDecl"
             THEN DeclareConst(r.st.envs, env, node.ident.token, r.ret.value)
             ELSE DeclareVar(r.st.envs, env, node.ident.token, r.ret.value)
    IN  IF d.err # NoError THEN Result(r.st, XbRuntimeError(d.err))
        ELSE Result([r.st EXCEPT !.envs = d.envs], r.ret)

\* IndexAccess.evaluate_index: a float index is truncated to an int
EvaluateIndex(node, env, st) ==
    LET r == Evaluate(node.index_expr, env, st) IN
    IF r.ret.exc = NoError /\ r.ret.value.py = "float"
    THEN Result(r.st, Return(PyInt(PyTrunc(r.ret.value))))
    ELSE r

\* node.evaluate_assignment_target(env): the Assigner, or the error
EvaluateAssignmentTarget(node, env, st) ==
    CASE node.node = "Identifier" ->
            [res |-> Result(st, Return(PyNone)),
             assign |-> NameAssigner(env, node.token)]
      [] node.node = "KeyAccess" ->
            LET t == Evaluate(node.lhs, env, st) IN
            [res |-> t,
             assign |-> IF t.ret.exc # NoError THEN NoAssigner
                        ELSE KeyAssigner(t.ret.value, node.key.token)]
      [] node.node = "IndexAccess" ->
            LET t == Evaluate(node.lhs, env, st)
                i == EvaluateIndex(node, env, t.st)
            IN  IF t.ret.exc # NoError THEN [res |-> t, assign |-> NoAssigner]
                ELSE [res |-> i,
                      assign |-> IF i.ret.exc # NoError THEN NoAssigner
                                 ELSE IndexAssigner(t.ret.value, i.ret.value)]
      [] node.node \in {"Block", "None"} ->
            \* a Block and a None are no Expr and have no such method
            [res |-> Result(st, HostException("AttributeError")),
             assign |-> NoAssigner]
      [] OTHER ->
            [res |-> Result(st, XbRuntimeError("invalid assignment target")),
             assign |-> NoAssigner]

\* Assign.evaluate with the value evaluated before the target
EvaluateAssignValueFirst(node, env, st) ==
    LET r == Evaluate(node.expr, env, st)
        t == EvaluateAssignmentTarget(node.target, env, r.st)
        a == Invoke(t.assign, r.ret.value, t.res.st)
    IN  IF r.ret.exc # NoError THEN r
        ELSE IF t.res.ret.exc # NoError THEN t.res
        ELSE IF a.ret.exc # NoError THEN a ELSE Result(a.st, r.ret)

\* Assign.evaluate: the Assigner of the target, the value, then assign(value)
EvaluateAssign(node, env, st) ==
    LET t == EvaluateAssignmentTarget(node.target, env, st) IN
    IF t.res.ret.exc # NoError THEN t.res
    ELSE LET r == Evaluate(node.expr, env, t.res.st) IN
         IF r.ret.exc # NoError THEN r
         ELSE LET a == Invoke(t.assign, r.ret.value, r.st) IN
              IF a.ret.exc # NoError THEN a ELSE Result(a.st, r.ret)

\* NestedBlock.evaluate with the block evaluated in env itself
EvaluateNestedBlockInPlace(node, env, st) == Evaluate(node.block, env, st)

\* NestedBlock.evaluate: inner_env = Environment(env); nothing holds the frame
\* once the block has returned
EvaluateNestedBlock(node, env, st) ==
    LET inner == Len(st.envs) + 1
        r == Evaluate(node.block, inner,
                      [st EXCEPT !.envs = Append(@, NewEnvironment(env))])
    IN  Result([r.st EXCEPT !.envs = SubSeq(@, 1, Len(st.envs))], r.ret)

\* node.evaluate(env): the state after it, and the value or the exception
Evaluate(node, env, st) ==
    CASE node.node = "Block" -> EvaluateBlock(node.exprs, env, st)
      [] node.node \in {"ConstDecl", "VarDecl"} ->
            LET r == Evaluate(node.expr, env, st) IN
            IF r.ret.exc # NoError THEN r ELSE Declaring(node, env, r)
      [] node.node = "Assign" -> EvaluateAssign(node, env, st)
      [] node.node \in BinaryNodes ->
            LET l == Evaluate(node.lhs, env, st) IN
            IF l.ret.exc # NoError THEN l
            ELSE LET r == Evaluate(node.rhs, env, l.st) IN
                 IF r.ret.exc # NoError THEN r
                 ELSE LET b == PyBinary(node.node, r.st.heap, l.ret.value,
                                        r.ret.value)
                      IN  Result([r.st EXCEPT !.heap = b.heap], b.ret)
      [] node.node = "And" ->
            LET l == Evaluate(node.lhs, env, st) IN
            IF l.ret.exc # NoError \/ ~PyTruth(l.st.heap, l.ret.value) THEN l
            ELSE Evaluate(node.rhs, env, l.st)
      [] node.node = "Or" ->
            LET l == Evaluate(node.lhs, env, st) IN
            IF l.ret.exc # NoError \/ PyTruth(l.st.heap, l.ret.value) THEN l
            ELSE Evaluate(node.rhs, env, l.st)
      [] node.node = "Coalesce" ->
            LET left == Evaluate(node.lhs, env, st) IN
            IF left.ret.exc # NoError \/ IsNotNone(left.st.heap, left.ret.value)
            THEN left
            ELSE Evaluate(node.rhs, env, left.st)
      [] node.node = "Negate" ->
            LET r == Evaluate(node.val, env, st) IN
            IF r.ret.exc # NoError THEN r
            ELSE Result(r.st, PyNegative(r.ret.value))
      [] node.node = "Not" ->
            LET r == Evaluate(node.val, env, st) IN
            IF r.ret.exc # NoError THEN r
            ELSE Result(r.st, Return(PyBool(~PyTruth(r.st.heap, r.ret.value))))
      [] node.node = "KeyAccess" ->
            \* the try holds the evaluation of lhs too
            LET l == Evaluate(node.lhs, env, st)
                g == IF l.ret.exc # NoError THEN l.ret
                     ELSE PyGetKey(l.st.heap, l.ret.value, node.key.token)
            IN  IF g.exc \in {"KeyError", "TypeError"}
                THEN Result(l.st, KeyError(g.exc, node.key.token))
                ELSE Result(l.st, g)
      [] node.node = "IndexAccess" ->
            \* the index first, then lhs inside the try
            LET i == EvaluateIndex(node, env, st)
                l == Evaluate(node.lhs, env, i.st)
                g == IF l.ret.exc # NoError THEN l.ret
                     ELSE PyGetIndex(l.st.heap, l.ret.value, i.ret.value)
            IN  IF i.ret.exc # NoError THEN i
                ELSE IF g.exc \in {"KeyError", "TypeError", "IndexError"}
                THEN Result(l.st, IndexError(g.exc, i.ret.value))
                ELSE Result(l.st, g)
      [] node.node = "Identifier" -> Result(st, GetItem(st.envs, env, node.token))
      [] node.node = "NestedBlock" -> EvaluateNestedBlock(node, env, st)
      [] node.node = "Number" ->
            LET f == PyFloatOfStr(node.token) IN
            IF f.exc # NoError THEN Result(st, HostException(f.exc))
            ELSE Result(st, Return(f.val))
      [] node.node = "String" ->
            Result(st, Return(PyStr(SubSeq(node.token, 2, Len(node.token) - 1))))
      [] node.node = "Bool" -> Result(st, Return(PyBool(node.token = TrueToken)))
      [] node.node = "Empty" -> Result(st, Return(PyNone))
      [] node.node = "Array" ->
            LET r == EvaluateExprs(node.exprs, <<>>, env, st) IN
            IF r.ret.exc # NoError THEN r
            ELSE Result([r.st EXCEPT !.heap = Append(@, PyList(r.ret.value))],
                        Return(PyRef("list", Len(r.st.heap) + 1)))
      [] node.node = "Object" ->
            LET r == EvaluatePairs(node.pairs, <<>>, env, st) IN
            IF r.ret.exc # NoError THEN r
            ELSE Result([r.st EXCEPT !.heap = Append(@, PyDict(r.ret.value))],
                        Return(PyRef("dict", Len(r.st.heap) + 1)))

(***************************************************************************)
(* The read-eval-print loop (repl.py, run): every line is parsed to a      *)
(* Block and evaluated against the one Environment of the loop; an         *)
(* exception ends the line, not the loop.                                  *)
(***************************************************************************)
Num1 == AstNumber(<<49>>)

Num2 == AstNumber(<<50>>)

Num3 == AstNumber(<<51>>)

Num5 == AstNumber(<<53>>)

IdO == AstIdentifier("o")

IdN == AstIdentifier("n")

\* { x : 1 }
LitX1 == AstObject(<<AstConstPair(AstKey("x"), Num1)>>)

\* { x : 1, y = 2 }
LitX1Y2 == AstObject(<<AstConstPair(AstKey("x"), Num1), AstVarPair(AstKey("y"), Num2)>>)

\* o.key = expr
AssignField(key, expr) == AstAssign(AstKeyAccess(IdO, AstKey(key)), expr)

\* const o = { x : 1 }; o.x = 2
ProgS4 == AstBlock(<<AstConstDecl(IdO, LitX1), AssignField("x", Num2)>>)

\* const o = { x : 1, y = 2 }; o.y = 5; o
ProgS3 == AstBlock(<<AstConstDecl(IdO, LitX1Y2), AssignField("y", Num5), IdO>>)

\* const o = { x : 1 }; o.z = 3
ProgAddKey == AstBlock(<<AstConstDecl(IdO, LitX1), AssignField("z", Num3)>>)

Programs ==
    {ProgS4, ProgS3, ProgAddKey,
     \* o.x = 2 / o.y = 5 / o.z = 3 / o.x / o.z
     AstBlock(<<AssignField("x", Num2)>>),
     AstBlock(<<AssignField("y", Num5)>>),
     AstBlock(<<AssignField("z", Num3)>>),
     AstBlock(<<AstKeyAccess(IdO, AstKey("x"))>>),
     AstBlock(<<AstKeyAccess(IdO, AstKey("z"))>>),
     \* n
     AstBlock(<<IdN>>),
     \* var n = 1;  /  n = 2  /  n.x = 2  /  n.x
     AstBlock(<<AstVarDecl(IdN, Num1), AstNoExpr>>),
     AstBlock(<<AstAssign(IdN, Num2)>>),
     AstBlock(<<AstAssign(AstKeyAccess(IdN, AstKey("x")), Num2)>>),
     AstBlock(<<AstKeyAccess(IdN, AstKey("x"))>>),
     \* var p = { o, s = "hi", t : true, u : () }
     AstBlock(<<AstVarDecl(AstIdentifier("p"),
                           AstObject(<<AstInferPair(IdO),
                                       AstVarPair(AstKey("s"), AstString(<<34, 104, 105, 34>>)),
                                       AstConstPair(AstKey("t"), AstBool(TrueToken)),
                                       AstConstPair(AstKey("u"), AstEmpty)>>))>>),
     \* { const o = { x : 1 }; o.x = 2 }
     AstBlock(<<AstNestedBlock(ProgS4)>>),
     \* 1 = 2  /  0xFF
     AstBlock(<<AstAssign(Num1, Num2)>>),
     AstBlock(<<AstNumber(<<48, 120, 70, 70>>)>>)}

InitRepl ==
    /\ envs = <<NewEnvironment(None)>>
    /\ envRet = EnvRet("idle", None, "", NoValue, Return(NoValue))
    /\ heap = <<>>
    /\ evRet = [prog |-> AstNoExpr, ret |-> Return(NoValue)]
    /\ pc = "prompt"
    /\ ObjIdle /\ ArrIdle /\ OpIdle

\* a loop that would give every line an Environment of its own
ReplLineFreshEnv ==
    \E prog \in Programs :
        LET r == Evaluate(prog, 1, EvalState(<<NewEnvironment(None)>>, heap)) IN
        /\ pc = "prompt"
        /\ Len(r.st.heap) <= MaxHeap
        /\ r.ret.exc # Unmodelled.exc
        /\ envs' = r.st.envs
        /\ heap' = r.st.heap
        /\ evRet' = [prog |-> prog, ret |-> r.ret]
        /\ UNCHANGED <<pc, envRet, objVars, arrVars, opVars>>

\* one turn of the loop: prompt() gave a line, block.evaluate(env), its
\* exception caught and printed
ReplLine ==
    \E prog \in Programs :
        LET r == Evaluate(prog, 1, EvalState(envs, heap)) IN
        /\ pc = "prompt"
        /\ Len(r.st.heap) <= MaxHeap
        /\ r.ret.exc # Unmodelled.exc
        /\ envs' = r.st.envs
        /\ heap' = r.st.heap
        /\ evRet' = [prog |-> prog, ret |-> r.ret]
        /\ UNCHANGED <<pc, envRet, objVars, arrVars, opVars>>

\* prompt() met the end of the input and gave None: the loop ends
ReplEof ==
    /\ pc = "prompt"
    /\ pc' = "done"
    /\ UNCHANGED <<envs, heap, evRet, envRet, objVars, arrVars, opVars>>

\* one turn of the loop on a line that parse() rejects: the UnexpectedInput,
\* or the XbMissingComma raised in its place, is caught and printed
ReplSyntaxError ==
    \E class \in {"UnexpectedInput", "XbMissingComma"} :
        /\ pc = "prompt"
        /\ evRet' = [prog |-> AstNoExpr, ret |-> HostException(class)]
        /\ UNCHANGED <<pc, envs, heap, envRet, objVars, arrVars, opVars>>

NextRepl == ReplLine \/ ReplSyntaxError \/ ReplEof

SpecRepl == InitRepl /\ [][NextRepl]_vars

-----------------------------------------------------------------------------
\* run.py, file mode: file(path) calls exec_xb(src) without an env, so
\* every call evaluates against exec_xb's default argument, the one
\* Environment made when the def statement ran.

\* var/const declarations, assignments and reads of n and m
FilePrograms ==
    {AstBlock(<<[node |-> decl, ident |-> id, expr |-> v]>>) :
        decl \in {"VarDecl", "ConstDecl"}, id \in {IdN, AstIdentifier("m")}, v \in {Num1, Num2}}
    \cup {AstBlock(<<AstAssign(id, v)>>) : id \in {IdN, AstIdentifier("m")}, v \in {Num1, Num2}}
    \cup {AstBlock(<<IdN>>), AstBlock(<<AstIdentifier("m")>>)}

\* exec_xb's print(block.evaluate(env).display()): the evaluation's result is
\* a raw host value, which has no display attribute
Display(ret) ==
    IF ret.exc = NoError THEN HostException("AttributeError") ELSE ret

InitFile ==
    /\ envs = <<NewEnvironment(None)>>
    /\ envRet = EnvRet("idle", None, "", NoValue, Return(NoValue))
    /\ heap = <<>>
    /\ evRet = [prog |-> AstNoExpr, ret |-> Return(NoValue)]
    /\ pc = "file"
    /\ ObjIdle /\ ArrIdle /\ OpIdle

\* file(path): read the source, exec_xb(src): block.evaluate(env) on the
\* default env, the result displayed, every exception caught and printed
File ==
    \E prog \in FilePrograms :
        LET r == Evaluate(prog, 1, EvalState(envs, heap)) IN
        /\ pc = "file"
        /\ r.ret.exc # Unmodelled.exc
        /\ envs' = r.st.envs
        /\ heap' = r.st.heap
        /\ evRet' = [prog |-> prog, ret |-> Display(r.ret)]
        /\ UNCHANGED <<pc, envRet, objVars, arrVars, opVars>>

NextFile == File

SpecFile == InitFile /\ [][NextFile]_vars

(***************************************************************************)
(* The evaluator applied to one program in a new Environment, as the      *)
(* first line of a loop is (repl.py, run).  The programs are the syntax    *)
(* trees the parser builds for the source text in the comments.            *)
(***************************************************************************)
FalseToken == <<102, 97, 108, 115, 101>>

Num0 == AstNumber(<<48>>)

Num7 == AstNumber(<<55>>)

Num9 == AstNumber(<<57>>)

IdM == AstIdentifier("m")

IdA == AstIdentifier("a")

IdB == AstIdentifier("b")

\* "-", the value a variable holds until a program writes it
Unset == AstString(<<34, 45, 34>>)

\* an undeclared name
IdZz == AstIdentifier("zz")

\* the literals, each with the Value it stands for:
\* ()  false  true  0  1  ""  "a"  []  {}
Lits ==
    {[ast |-> AstEmpty, val |-> Empty],
     [ast |-> AstBool(FalseToken), val |-> Boolean(FALSE)],
     [ast |-> AstBool(TrueToken), val |-> Boolean(TRUE)],
     [ast |-> Num0, val |-> Number(PyInt(0))],
     [ast |-> Num1, val |-> Number(PyInt(1))],
     [ast |-> AstString(<<34, 34>>), val |-> String(<<>>)],
     [ast |-> AstString(<<34, 97, 34>>), val |-> String(<<97>>)],
     [ast |-> AstArray(<<>>), val |-> Array(<<>>)],
     [ast |-> AstObject(<<>>), val |-> Object(<<>>)]}

\* var m = "-"; L && (m = R)   and   var m = "-"; L || (m = R)
LogicProg(op, L, R) ==
    AstBlock(<<AstVarDecl(IdM, Unset),
               AstBinary(op, L.ast, AstAssign(IdM, R.ast))>>)

\* n = n + 1
Increment == AstAssign(IdN, AstBinary("Add", IdN, Num1))

\* var n = 0; var m = "-"; { n = n + 1; L } ?? (m = R)
CoalesceProg(L, R) ==
    AstBlock(<<AstVarDecl(IdN, Num0), AstVarDecl(IdM, Unset),
               AstBinary("Coalesce",
                         AstNestedBlock(AstBlock(<<Increment, L.ast>>)),
                         AstAssign(IdM, R.ast))>>)

\* var n = 1; var o = { x = 1 }; var a = [1, 1]; var m = "-"
Prelude ==
    <<AstVarDecl(IdN, Num1),
      AstVarDecl(IdO, AstObject(<<AstVarPair(AstKey("x"), Num1)>>)),
      AstVarDecl(IdA, AstArray(<<Num1, Num1>>)),
      AstVarDecl(IdM, Unset)>>

\* n   o.x   a[0]
Targets == {IdN, AstKeyAccess(IdO, AstKey("x")), AstIndexAccess(IdA, Num0)}

\* expressions that raise:  zz   1 / 0   { m = 2; zz }
Failing ==
    {IdZz, AstBinary("Divide", Num1, Num0),
     AstNestedBlock(AstBlock(<<AstAssign(IdM, Num2), IdZz>>))}

\* expressions that are no Identifier, KeyAccess or IndexAccess
NonTargets ==
    {L.ast : L \in Lits}
    \cup {AstBinary(op, IdN, Num1) :
              op \in {"Add", "Equal", "LessThan", "And", "Or", "Coalesce", "Pow"}}
    \cup {AstUnary("Negate", IdN), AstUnary("Not", IdN),
          AstNestedBlock(AstBlock(<<IdN>>)), AstAssign(IdN, Num1),
          AstVarDecl(IdB, Num1), AstConstDecl(IdB, Num1)}

\* ...; T = E
AssignProg(T, E) == AstBlock(Prelude \o <<AstAssign(T, E)>>)

\* ...; var b = o; o.x = { o = { x = 5 }; 2 }
AssignOrderKey ==
    AstBlock(Prelude \o
             <<AstVarDecl(IdB, IdO),
               AstAssign(AstKeyAccess(IdO, AstKey("x")),
                         AstNestedBlock(AstBlock(
                             <<AstAssign(IdO, AstObject(<<AstVarPair(AstKey("x"), Num5)>>)),
                               Num2>>)))>>)

\* ...; a[n] = (n = 0)
AssignOrderIndex ==
    AstBlock(Prelude \o <<AstAssign(AstIndexAccess(IdA, IdN), AstAssign(IdN, Num0))>>)

AssignPrograms ==
    {AssignProg(T, E) : T \in Targets, E \in Failing \cup {L.ast : L \in Lits}}
    \cup {AssignProg(X, AstAssign(IdM, Num2)) : X \in NonTargets}
    \cup {AssignOrderKey, AssignOrderIndex}

\* programs that write an aggregate through one holder of it and then read
\* it through another, each with the number of aggregates its literals make:
\* after the Prelude,
\*   var b = a; b[0] = 9; a[0]
\*   const b = o; b.x = 9; o.x
\*   { var b = a; b[0] = 9 }; a[0]
\*   var b = [a]; b[0][0] = 9; a[0]
\*   var b = { a }; b.a[0] = 9; a[0]
\*   var b = (); b = a; a[1] = 9; b[1]
\*   var b = [o]; o.x = 9; b[0].x
\*   var b = { o }; { b.o.x = 9 }; o.x
AliasCases ==
    LET ax == AstKey("x")
        case(exprs, made) == [prog |-> AstBlock(Prelude \o exprs), made |-> made]
    IN  {case(<<AstVarDecl(IdB, IdA),
                AstAssign(AstIndexAccess(IdB, Num0), Num9),
                AstIndexAccess(IdA, Num0)>>, 2),
         case(<<AstConstDecl(IdB, IdO),
                AstAssign(AstKeyAccess(IdB, ax), Num9),
                AstKeyAccess(IdO, ax)>>, 2),
         case(<<AstNestedBlock(AstBlock(
                    <<AstVarDecl(IdB, IdA),
                      AstAssign(AstIndexAccess(IdB, Num0), Num9)>>)),
                AstIndexAccess(IdA, Num0)>>, 2),
         case(<<AstVarDecl(IdB, AstArray(<<IdA>>)),
                AstAssign(AstIndexAccess(AstIndexAccess(IdB, Num0), Num0), Num9),
                AstIndexAccess(IdA, Num0)>>, 3),
         case(<<AstVarDecl(IdB, AstObject(<<AstInferPair(IdA)>>)),
                AstAssign(AstIndexAccess(AstKeyAccess(IdB, AstKey("a")), Num0), Num9),
                AstIndexAccess(IdA, Num0)>>, 3),
         case(<<AstVarDecl(IdB, AstEmpty), AstAssign(IdB, IdA),
                AstAssign(AstIndexAccess(IdA, Num1), Num9),
                AstIndexAccess(IdB, Num1)>>, 2),
         case(<<AstVarDecl(IdB, AstArray(<<IdO>>)),
                AstAssign(AstKeyAccess(IdO, ax), Num9),
                AstKeyAccess(AstIndexAccess(IdB, Num0), ax)>>, 3),
         case(<<AstVarDecl(IdB, AstObject(<<AstInferPair(IdO)>>)),
                AstNestedBlock(AstBlock(
                    <<AstAssign(AstKeyAccess(AstKeyAccess(IdB, AstKey("o")), ax), Num9)>>)),
                AstKeyAccess(IdO, ax)>>, 3)}

\* n = n * 3
Triple == AstAssign(IdN, AstBinary("Multiply", IdN, Num3))

\* { n = 0; a }
ResetThenA == AstNestedBlock(AstBlock(<<AstAssign(IdN, Num0), IdA>>))

\* the nodes of two operands that evaluate both when the first is 2
TwoOperandNodes == BinaryNodes \cup {"And"}

\* ...; (n = n + 1) op (n = n * 3)
OrderBinary(op) == AstBlock(Prelude \o <<AstBinary(op, Increment, Triple)>>)

\* ...; [n = n + 1, n = n * 3]
OrderArray == AstBlock(Prelude \o <<AstArray(<<Increment, Triple>>)>>)

\* ...; { x = (n = n + 1), y : (n = n * 3) }
OrderObject ==
    AstBlock(Prelude \o <<AstObject(<<AstVarPair(AstKey("x"), Increment),
                                      AstConstPair(AstKey("y"), Triple)>>)>>)

\* ...; a[1] = 5; { n = 0; a }[n] = 9
OrderIndexTarget ==
    AstBlock(Prelude \o <<AstAssign(AstIndexAccess(IdA, Num1), Num5),
                          AstAssign(AstIndexAccess(ResetThenA, IdN), Num9)>>)

\* ...; a[1] = 5; { n = 0; a }[n]
OrderIndexValue ==
    AstBlock(Prelude \o <<AstAssign(AstIndexAccess(IdA, Num1), Num5),
                          AstIndexAccess(ResetThenA, IdN)>>)

OrderPrograms ==
    {OrderBinary(op) : op \in TwoOperandNodes}
    \cup {OrderArray, OrderObject, OrderIndexTarget, OrderIndexValue}

\* the compare and arithmetic nodes that the parser builds
OpNodes ==
    {"Equal", "NotEqual", "LessThan", "GreaterThan", "LessThanOrEqual",
     "GreaterThanOrEqual", "Add", "Subtract", "Multiply", "Divide",
     "IntegerDivide", "Mod", "Pow"}

\* L op R
BinaryProg(op, L, R) == AstBlock(<<AstBinary(op, L.ast, R.ast)>>)

IdX == AstIdentifier("x")

IdC == AstIdentifier("c")

\* var x = 1; const c = 2; { var D = 7; x = 3; D }, the inner declaration a
\* VarDecl or a ConstDecl
NestedProg(D, decl) ==
    AstBlock(<<AstVarDecl(IdX, Num1), AstConstDecl(IdC, Num2),
               AstNestedBlock(AstBlock(
                   <<[node |-> decl, ident |-> AstIdentifier(D), expr |-> Num7],
                     AstAssign(IdX, Num3), AstIdentifier(D)>>))>>)

\* { var y = 5 }; { y }
NestedTwice ==
    AstBlock(<<AstNestedBlock(AstBlock(<<AstVarDecl(AstIdentifier("y"), Num5)>>)),
               AstNestedBlock(AstBlock(<<AstIdentifier("y")>>))>>)

\* 0.5 and 1.5
NumHalf == AstNumber(<<48, 46, 53>>)

Num1Half == AstNumber(<<49, 46, 53>>)

\* index expressions, each with the Value it stands for:
\* 0  1  2  -1  -2  1.5  0.5  -0.5  ()  true
Indices ==
    {[ast |-> Num0, val |-> Number(PyInt(0))],
     [ast |-> Num1, val |-> Number(PyInt(1))],
     [ast |-> Num2, val |-> Number(PyInt(2))],
     [ast |-> AstUnary("Negate", Num1), val |-> Number(PyInt(-1))],
     [ast |-> AstUnary("Negate", Num2), val |-> Number(PyInt(-2))],
     [ast |-> Num1Half, val |-> Number(PyFloat(3, 2))],
     [ast |-> NumHalf, val |-> Number(PyFloat(1, 2))],
     [ast |-> AstUnary("Negate", NumHalf), val |-> Number(PyFloat(-1, 2))],
     [ast |-> AstEmpty, val |-> Empty],
     [ast |-> AstBool(TrueToken), val |-> Boolean(TRUE)]}

\* ...; a[1] = 5; a[I]
IndexRead(I) ==
    AstBlock(Prelude \o <<AstAssign(AstIndexAccess(IdA, Num1), Num5),
                          AstIndexAccess(IdA, I.ast)>>)

\* ...; a[1] = 5; a[I] = 9
IndexWrite(I) ==
    AstBlock(Prelude \o <<AstAssign(AstIndexAccess(IdA, Num1), Num5),
                          AstAssign(AstIndexAccess(IdA, I.ast), Num9)>>)

\* ...; a[1] = 5; a[n = n - 1] = 9
IndexOnce ==
    AstBlock(Prelude \o
             <<AstAssign(AstIndexAccess(IdA, Num1), Num5),
               AstAssign(AstIndexAccess(IdA, AstAssign(IdN, AstBinary("Subtract", IdN, Num1))),
                         Num9)>>)

EvalPrograms ==
    {LogicProg(op, L, R) : op \in {"And", "Or"}, L \in Lits, R \in Lits}
    \cup {CoalesceProg(L, R) : L \in Lits, R \in Lits}
    \cup AssignPrograms
    \cup {c.prog : c \in AliasCases}
    \cup OrderPrograms
    \cup {BinaryProg(op, L, R) : op \in OpNodes, L \in Lits, R \in Lits}
    \cup {NestedProg(D, decl) : D \in {"x", "c", "y"}, decl \in {"VarDecl", "ConstDecl"}}
    \cup {NestedTwice, IndexOnce}
    \cup {IndexRead(I) : I \in Indices} \cup {IndexWrite(I) : I \in Indices}

InitEval ==
    /\ envs = <<NewEnvironment(None)>>
    /\ envRet = EnvRet("idle", None, "", NoValue, Return(NoValue))
    /\ heap = <<>>
    /\ evRet \in {[prog |-> prog, ret |-> Return(NoValue)] : prog \in EvalPrograms}
    /\ pc = "eval"
    /\ ObjIdle /\ ArrIdle /\ OpIdle

\* block.evaluate(env)
EvalProgram ==
    LET r == Evaluate(evRet.prog, 1, EvalState(envs, heap)) IN
    /\ pc = "eval"
    /\ r.ret.exc # Unmodelled.exc
    /\ pc' = "done"
    /\ envs' = r.st.envs
    /\ heap' = r.st.heap
    /\ evRet' = [evRet EXCEPT !.ret = r.ret]
    /\ UNCHANGED <<envRet, objVars, arrVars, opVars>>

NextEval == EvalProgram

SpecEval == InitEval /\ [][NextEval]_vars

(***************************************************************************)
(* An Object value under key_get / key_set (value.py, Object).             *)
(***************************************************************************)
ObjKeys == {"x", "y"}

\* the keys asked for: "z" is a key of no Object here
KeyInputs == ObjKeys \cup {"z"}

ObjValues == {Number(PyInt(1)), Number(PyInt(2))}

\* Object.__init__ over every dict of ObjKeys
ObjectsOver(keys, values) ==
    {Object(d) : d \in UNION {[K -> {ObjectEntry(v, c) : v \in values, c \in BOOLEAN}]
                                : K \in SUBSET keys}}

ObjRet(op, key, arg, ret) == [op |-> op, key |-> key, arg |-> arg, ret |-> ret]

InitObj ==
    /\ obj \in ObjectsOver(ObjKeys, ObjValues)
    /\ objRet = ObjRet("init", "", NoValue, Return(NoValue))
    /\ EnvIdle /\ ArrIdle /\ OpIdle /\ EvalIdle

\* obj.key_get(key)
ObjKeyGet ==
    \E key \in KeyInputs :
        /\ objRet' = ObjRet("key_get", key, NoValue, ValueKeyGet(obj, key))
        /\ UNCHANGED obj
        /\ UNCHANGED notObjVars

\* obj.key_set(key, item)
ObjKeySet ==
    \E key \in KeyInputs, item \in ObjValues :
        LET r == ValueKeySet(obj, key, item) IN
        /\ obj' = r.self
        /\ objRet' = ObjRet("key_set", key, item, r.ret)
        /\ UNCHANGED notObjVars

NextObj == ObjKeyGet \/ ObjKeySet

SpecObj == InitObj /\ [][NextObj]_vars

(***************************************************************************)
(* An Array value under index_get / index_set (value.py, Array).           *)
(***************************************************************************)
ArrValues == {Number(PyInt(1)), String(<<104, 105>>)}

\* the indices asked for: ints around [0, length), a float that is whole
\* (stored as the int), fractional floats, and values that are no Number
IndexInputs ==
    {Number(PyInt(i)) : i \in -(MaxArrayLen + 1)..(MaxArrayLen + 1)}
    \cup {Number(PyFloat(1, 1)), Number(PyFloat(1, 2)), Number(PyFloat(3, 2)),
          Number(PyFloat(-1, 2))}
    \cup {String(<<49>>), Boolean(TRUE), Empty}

ArraysUpTo(n, values) ==
    {Array(l) : l \in UNION {[1..k -> values] : k \in 0..n}}

ArrRet(op, index, arg, ret) == [op |-> op, index |-> index, arg |-> arg, ret |-> ret]

InitArr ==
    /\ arr \in ArraysUpTo(MaxArrayLen, ArrValues)
    /\ arrRet = ArrRet("init", NoValue, NoValue, Return(NoValue))
    /\ EnvIdle /\ ObjIdle /\ OpIdle /\ EvalIdle

\* arr.index_get(index)
ArrIndexGet ==
    \E index \in IndexInputs :
        /\ arrRet' = ArrRet("index_get", index, NoValue, ValueIndexGet(arr, index))
        /\ UNCHANGED arr
        /\ UNCHANGED notArrVars

\* arr.index_set(index, item)
ArrIndexSet ==
    \E index \in IndexInputs, item \in ArrValues :
        LET r == ValueIndexSet(arr, index, item) IN
        /\ arr' = r.self
        /\ arrRet' = ArrRet("index_set", index, item, r.ret)
        /\ UNCHANGED notArrVars

NextArr == ArrIndexGet \/ ArrIndexSet

SpecArr == InitArr /\ [][NextArr]_vars

(***************************************************************************)
(* value.py: the casts and display().  Text is a sequence of code points;  *)
(* the strings handled are those over the digits, the letters, ".", "+"    *)
(* and "-", with exponents of one digit.                                   *)
(***************************************************************************)
\* str.lower()
PyLower(s) == [i \in 1..Len(s) |-> IF 65 <= s[i] /\ s[i] <= 90 THEN s[i] + 32 ELSE s[i]]

HexDigit(c) == IsDigit(c) \/ (97 <= c /\ c <= 102)

RECURSIVE HexValue(_)
HexValue(s) ==
    IF s = <<>> THEN 0
    ELSE 16 * HexValue(SubSeq(s, 1, Len(s) - 1))
         + (IF IsDigit(s[Len(s)]) THEN s[Len(s)] - 48 ELSE s[Len(s)] - 87)

\* int(raw, base=0) of a text that starts with 0x
PyIntOfHex(raw) ==
    LET digits == SubSeq(raw, 3, Len(raw)) IN
    IF \A i \in 1..Len(digits) : HexDigit(digits[i])
    THEN [exc |-> NoError, val |-> PyInt(HexValue(digits))]
    ELSE [exc |-> "ValueError", val |-> PyInt(0)]

\* int(raw): [ "+" | "-" ] digits
PyIntOfStr(raw) ==
    LET signed == raw # <<>> /\ raw[1] \in {43, 45}
        digits == IF signed THEN Tail(raw) ELSE raw
    IN  IF digits # <<>> /\ AllDigits(digits)
        THEN [exc |-> NoError,
              val |-> PyInt(IF signed /\ raw[1] = 45 THEN -DigitsValue(digits)
                            ELSE DigitsValue(digits))]
        ELSE [exc |-> "ValueError", val |-> PyInt(0)]

\* the texts whose parsing is computed here
Parsable(s) ==
    /\ \A i \in 1..Len(s) :
          \/ IsDigit(s[i]) \/ (65 <= s[i] /\ s[i] <= 90) \/ (97 <= s[i] /\ s[i] <= 122)
          \/ s[i] \in {43, 45, 46}
    /\ LET e == IndexOf(s, {101, 69}) IN e # 0 => Len(s) - e <= 2

\* Number._parse_string
ParseString(string) ==
    LET raw == PyLower(string) IN
    IF Len(raw) > 2 /\ SubSeq(raw, 1, 2) = <<48, 120>>
    THEN PyIntOfHex(raw)
    ELSE IF \E i \in 1..Len(raw) : raw[i] \in {46, 101}
    THEN LET f == PyFloatOfStr(raw) IN
         IF f.exc # NoError THEN f
         ELSE [exc |-> NoError,
               val |-> IF PyIsWhole(f.val) THEN PyInt(PyTrunc(f.val)) ELSE f.val]
    ELSE PyIntOfStr(raw)

\* Value.cast: the variant has no cast from this value
CannotCast(value, type_name) ==
    XbRuntimeError("cannot cast type '" \o value.type \o "' to '" \o type_name \o "'")

\* Number.cast
NumberCast(value) ==
    CASE value.type = "number" -> Return(Number(value._val))
      [] value.type = "string" ->
            LET p == ParseString(value._str) IN
            IF ~Parsable(value._str) THEN Unmodelled
            ELSE IF p.exc # NoError THEN HostException(p.exc)
            ELSE Return(Number(p.val))
      [] OTHER -> CannotCast(value, "number")

\* Array.cast
ArrayCast(value) ==
    IF value.type = "array" THEN Return(value) ELSE CannotCast(value, "array")

\* Object.cast
ObjectCast(value) ==
    IF value.type = "object" THEN Return(value) ELSE CannotCast(value, "object")

\* str(n) of an int
RECURSIVE PyStrOfNat(_)
PyStrOfNat(n) ==
    IF n < 10 THEN <<48 + n>> ELSE PyStrOfNat(n \div 10) \o <<48 + (n % 10)>>

\* the number of decimal places, up to 4, that hold n/d exactly; 5 when
\* four do not
RECURSIVE Places(_, _)
Places(d, k) ==
    IF k > 4 \/ IntPow(10, k) % d = 0 THEN k ELSE Places(d, k + 1)

\* str(x) of an int or of a float that is not whole
PyStrOfNum(x) ==
    LET k == Places(x.d, 0)
        scaled == Abs(x.n) * (IntPow(10, k) \div x.d)
        frac == PyStrOfNat(scaled % IntPow(10, k))
        zeros == [i \in 1..(k - Len(frac)) |-> 48]
    IN  (IF x.n < 0 THEN <<45>> ELSE <<>>)
        \o (IF x.d = 1 THEN PyStrOfNat(Abs(x.n))
            ELSE PyStrOfNat(scaled \div IntPow(10, k)) \o <<46>> \o zeros \o frac)

Letters ==
    <<"a", "b", "c", "d", "e", "f", "g", "h", "i", "j", "k", "l", "m",
      "n", "o", "p", "q", "r", "s", "t", "u", "v", "w", "x", "y", "z">>

\* the text of a key of one letter
KeyText(key) == <<96 + CHOOSE i \in 1..26 : Letters[i] = key>>

\* the values whose display() is computed here: numbers of at most four
\* decimal places, objects of at most one field, its key a letter
RECURSIVE Displayable(_)
Displayable(value) ==
    CASE value.type = "number" -> Places(value._val.d, 0) <= 4
      [] value.type = "array" ->
            \A i \in 1..Len(value._list) : Displayable(value._list[i])
      [] value.type = "object" ->
            /\ Cardinality(DOMAIN value._dict) <= 1
            /\ \A k \in DOMAIN value._dict :
                  /\ \E i \in 1..26 : Letters[i] = k
                  /\ Displayable(value._dict[k].value)
      [] OTHER -> TRUE

\* ", ".join(texts)
RECURSIVE Join(_)
Join(texts) ==
    IF texts = <<>> THEN <<>>
    ELSE IF Len(texts) = 1 THEN texts[1]
    ELSE texts[1] \o <<44, 32>> \o Join(Tail(texts))

\* value.display()
RECURSIVE ValueDisplay(_)
ValueDisplay(value) ==
    CASE value.type = "()" -> <<40, 41>>
      [] value.type = "boolean" ->
            IF value._bool THEN <<116, 114, 117, 101>> ELSE <<102, 97, 108, 115, 101>>
      [] value.type = "string" -> <<34>> \o value._str \o <<34>>
      [] value.type = "number" -> PyStrOfNum(value._val)
      [] value.type = "array" ->
            <<91>> \o Join([i \in 1..Len(value._list) |-> ValueDisplay(value._list[i])])
                   \o <<93>>
      [] value.type = "object" ->
            LET display_pair(k) ==
                    KeyText(k)
                    \o (IF value._dict[k].is_const THEN <<32, 58, 32>> ELSE <<32, 61, 32>>)
                    \o ValueDisplay(value._dict[k].value)
            IN  <<123>>
                \o (IF DOMAIN value._dict = {} THEN <<>>
                    ELSE display_pair(CHOOSE k \in DOMAIN value._dict : TRUE))
                \o <<125>>

\* String.cast
StringCast(value) ==
    IF value.type = "string" THEN Return(String(value._str))
    ELSE IF ~Displayable(value) THEN Unmodelled
    ELSE Return(String(ValueDisplay(value)))

\* cls.cast(value) for the variant class of that type_name; Empty has only
\* Value's cast
Cast(type_name, value) ==
    CASE type_name = "boolean" -> Return(BooleanCast(value))
      [] type_name = "string" -> StringCast(value)
      [] type_name = "number" -> NumberCast(value)
      [] type_name = "array" -> ArrayCast(value)
      [] type_name = "object" -> ObjectCast(value)
      [] type_name = "()" -> CannotCast(value, "()")

(***************************************************************************)
(* The Op facade applied to a pair of Values (value.py, Op).               *)
(***************************************************************************)
OpValues ==
    {Empty, Boolean(TRUE), Boolean(FALSE),
     Number(PyInt(0)), Number(PyInt(2)), Number(PyInt(-1)), Number(PyFloat(1, 2)),
     String(<<>>), String(<<98>>), String(<<98, 99>>), String(<<66>>),
     Array(<<>>), Array(<<Number(PyInt(2))>>), Array(<<Number(PyInt(2)), Empty>>),
     Object(<<>>),
     Object([k \in {"x"} |-> ObjectEntry(Number(PyInt(2)), TRUE)]),
     Object([k \in {"x"} |-> ObjectEntry(Number(PyInt(2)), FALSE)])}

InitOp ==
    /\ opA \in OpValues
    /\ opB \in OpValues
    /\ opName = "init"
    /\ opRet = Return(NoValue)
    /\ EnvIdle /\ ObjIdle /\ ArrIdle /\ EvalIdle

\* Op.eq
ApplyEq ==
    /\ opName' = "eq"
    /\ opRet' = OpEq(opA, opB)
    /\ UNCHANGED <<opA, opB>>
    /\ UNCHANGED notOpVars

\* Op.neq
ApplyNeq ==
    /\ opName' = "neq"
    /\ opRet' = OpNeq(opA, opB)
    /\ UNCHANGED <<opA, opB>>
    /\ UNCHANGED notOpVars

\* Op.lt
ApplyLt ==
    /\ opName' = "lt"
    /\ opRet' = OpLt(opA, opB)
    /\ UNCHANGED <<opA, opB>>
    /\ UNCHANGED notOpVars

\* Op.gt
ApplyGt ==
    /\ opName' = "gt"
    /\ opRet' = OpGt(opA, opB)
    /\ UNCHANGED <<opA, opB>>
    /\ UNCHANGED notOpVars

\* Op.lte
ApplyLte ==
    /\ opName' = "lte"
    /\ opRet' = OpLte(opA, opB)
    /\ UNCHANGED <<opA, opB>>
    /\ UNCHANGED notOpVars

\* Op.gte
ApplyGte ==
    /\ opName' = "gte"
    /\ opRet' = OpGte(opA, opB)
    /\ UNCHANGED <<opA, opB>>
    /\ UNCHANGED notOpVars

\* Op.add
ApplyAdd ==
    /\ opName' = "add"
    /\ opRet' = OpAdd(opA, opB)
    /\ UNCHANGED <<opA, opB>>
    /\ UNCHANGED notOpVars

\* Op.sub
ApplySub ==
    /\ opName' = "sub"
    /\ opRet' = OpSub(opA, opB)
    /\ UNCHANGED <<opA, opB>>
    /\ UNCHANGED notOpVars

\* Op.mul
ApplyMul ==
    /\ opName' = "mul"
    /\ opRet' = OpMul(opA, opB)
    /\ UNCHANGED <<opA, opB>>
    /\ UNCHANGED notOpVars

\* Op.div
ApplyDiv ==
    /\ opName' = "div"
    /\ opRet' = OpDiv(opA, opB)
    /\ UNCHANGED <<opA, opB>>
    /\ UNCHANGED notOpVars

\* Op.int_div
ApplyIntDiv ==
    /\ opName' = "int_div"
    /\ opRet' = OpIntDiv(opA, opB)
    /\ UNCHANGED <<opA, opB>>
    /\ UNCHANGED notOpVars

\* Op.mod
ApplyMod ==
    /\ opName' = "mod"
    /\ opRet' = OpMod(opA, opB)
    /\ UNCHANGED <<opA, opB>>
    /\ UNCHANGED notOpVars

\* Op.pow
ApplyPow ==
    /\ opName' = "pow"
    /\ opRet' = OpPow(opA, opB)
    /\ UNCHANGED <<opA, opB>>
    /\ UNCHANGED notOpVars

\* Op.neg
ApplyNeg ==
    /\ opName' = "neg"
    /\ opRet' = OpNeg(opA)
    /\ UNCHANGED <<opA, opB>>
    /\ UNCHANGED notOpVars

\* Op.not_
ApplyNot ==
    /\ opName' = "not_"
    /\ opRet' = OpNot(opA)
    /\ UNCHANGED <<opA, opB>>
    /\ UNCHANGED notOpVars

NextOp ==
    \/ ApplyEq \/ ApplyNeq \/ ApplyLt \/ ApplyGt \/ ApplyLte \/ ApplyGte
    \/ ApplyAdd \/ ApplySub \/ ApplyMul \/ ApplyDiv \/ ApplyIntDiv \/ ApplyMod
    \/ ApplyPow \/ ApplyNeg \/ ApplyNot

SpecOp == InitOp /\ [][NextOp]_vars

(***************************************************************************)
(* The casts applied to a Value, next to the Op facade (value.py).         *)
(***************************************************************************)
\* texts for String to Number:
\* 12  -3  +4  0x1F  0xg1  1.5  2.0  1e2  2.5E-1  1e  .  abc
NumberTexts ==
    {<<49, 50>>, <<45, 51>>, <<43, 52>>, <<48, 120, 49, 70>>, <<48, 120, 103, 49>>,
     <<49, 46, 53>>, <<50, 46, 48>>, <<49, 101, 50>>, <<50, 46, 53, 69, 45, 49>>,
     <<49, 101>>, <<46>>, <<97, 98, 99>>}

CastValues == OpValues \cup {String(s) : s \in NumberTexts}

\* the type_name of each variant class
TypeNames == {"()", "boolean", "string", "number", "array", "object"}

InitCast ==
    /\ opA \in CastValues
    /\ opB \in {Empty, Number(PyInt(0)), Number(PyInt(-1)), Number(PyFloat(1, 2))}
    /\ opName = "init"
    /\ opRet = Return(NoValue)
    /\ EnvIdle /\ ObjIdle /\ ArrIdle /\ EvalIdle

\* cls.cast(value)
ApplyCast ==
    \E type_name \in TypeNames :
        /\ Cast(type_name, opA).exc # Unmodelled.exc
        /\ opName' = "cast " \o type_name
        /\ opRet' = Cast(type_name, opA)
        /\ UNCHANGED <<opA, opB>>
        /\ UNCHANGED notOpVars

NextCast == NextOp \/ ApplyCast

SpecCast == InitCast /\ [][NextCast]_vars

(***************************************************************************)
(* Vocabulary of the claims about the Environment.                         *)
(***************************************************************************)
\* the frames from self up to the root, nearest first
RECURSIVE FrameChain(_, _)
FrameChain(es, self) ==
    IF self = None THEN <<>> ELSE <<self>> \o FrameChain(es, es[self].parent)

\* the nearest frame of self's chain that binds name, None when there is none
NearestFrame(es, self, name) ==
    LET c == FrameChain(es, self)
        hits == {i \in 1..Len(c) : name \in DOMAIN es[c[i]]._dict}
    IN  IF hits = {} THEN None
        ELSE c[CHOOSE i \in hits : \A j \in hits : i <= j]

\* frames fs are frames es but for the binding of name in frame f
SameButBinding(es, fs, f, name) ==
    /\ Len(fs) = Len(es)
    /\ \A g \in 1..Len(es) :
        /\ fs[g].parent = es[g].parent
        /\ DOMAIN fs[g]._dict \ {name} = DOMAIN es[g]._dict \ {name}
        /\ g # f => DOMAIN fs[g]._dict = DOMAIN es[g]._dict
        /\ \A n \in DOMAIN es[g]._dict :
              (g # f \/ n # name) => fs[g]._dict[n] = es[g]._dict[n]

\* C1: an assignment whose nearest binding is const fails with
\* "name 'X' is constant" and changes no binding of any frame; and no
\* Environment operation ever changes the value or the flag of a const binding.
C1_ConstAssignRejected ==
    [][ /\ ( /\ envRet'.op = "setitem"
             /\ NearestFrame(envs, envRet'.env, envRet'.name) # None
             /\ envs[NearestFrame(envs, envRet'.env, envRet'.name)]
                    ._dict[envRet'.name].is_const )
           => ( /\ envRet'.err = "name '" \o envRet'.name \o "' is constant"
                /\ envs' = envs )
        /\ \A f \in 1..Len(envs) : \A n \in DOMAIN envs[f]._dict :
               envs[f]._dict[n].is_const =>
                   /\ n \in DOMAIN envs'[f]._dict
                   /\ envs'[f]._dict[n] = envs[f]._dict[n]
      ]_vars

\* an assignment to "a" through a child of the frame that declares it const
\* has just been rejected, another binding being present
C1_Witness ==
    /\ envRet.op = "setitem"
    /\ envRet.name = "a"
    /\ envRet.err = "name 'a' is constant"
    /\ NearestFrame(envs, envRet.env, "a") \notin {None, envRet.env}
    /\ envs[NearestFrame(envs, envRet.env, "a")]._dict["a"].value # envRet.arg
    /\ Bindings(envs) >= 2

\* C2: an assignment to a name unbound in the current frame and bound as var
\* in an ancestor updates the nearest such ancestor only (no binding appears
\* in the child, nothing else changes, lookups through the child and through
\* that ancestor return the value); with the name bound nowhere in the chain
\* it fails with "name 'X' not recognized in this scope" and changes nothing.
C2_AssignWalksToDeclaringFrame ==
    [][ (envRet'.op = "setitem" /\ envRet'.name \notin DOMAIN envs[envRet'.env]._dict) =>
          LET s == envRet'.env
              n == envRet'.name
              f == NearestFrame(envs, s, n)
          IN  /\ f = None =>
                    /\ envRet'.err = "name '" \o n \o "' not recognized in this scope"
                    /\ envs' = envs
              /\ (f # None /\ ~envs[f]._dict[n].is_const) =>
                    /\ envRet'.err = NoError
                    /\ SameButBinding(envs, envs', f, n)
                    /\ n \in DOMAIN envs'[f]._dict
                    /\ envs'[f]._dict[n] = EnvironmentEntry(envRet'.arg, FALSE)
                    /\ n \notin DOMAIN envs'[s]._dict
                    /\ GetItem(envs', s, n) = Return(envRet'.arg)
                    /\ GetItem(envs', f, n) = Return(envRet'.arg)
      ]_vars

\* "a" was assigned through a frame that does not bind it, the value landing
\* in the nearest ancestor's var binding while a farther ancestor binds "a" too
C2_Witness ==
    /\ envRet.op = "setitem"
    /\ envRet.name = "a"
    /\ envRet.err = NoError
    /\ "a" \notin DOMAIN envs[envRet.env]._dict
    /\ LET f == NearestFrame(envs, envRet.env, "a") IN
        /\ f # None
        /\ envs[f]._dict["a"].value = envRet.arg
        /\ envs[f].parent # None
        /\ NearestFrame(envs, envs[f].parent, "a") # None
        /\ envs[NearestFrame(envs, envs[f].parent, "a")]._dict["a"].value # envRet.arg

\* C3: a lookup returns the value of the nearest frame of the chain that
\* binds the name, fails with "name 'X' not recognized in this scope" exactly
\* when no frame of the chain binds it, and changes no frame.
C3_LookupNearestBinding ==
    [][ envRet'.op = "getitem" =>
          LET s == envRet'.env
              n == envRet'.name
              f == NearestFrame(envs, s, n)
          IN  /\ envs' = envs
              /\ f # None =>
                    /\ envRet'.err = NoError
                    /\ envRet'.value = envs[f]._dict[n].value
              /\ f = None =>
                    /\ envRet'.err = "name '" \o n \o "' not recognized in this scope"
                    /\ envRet'.value = NoValue
      ]_vars

\* a lookup of "a" through a child returned the child's var binding, which
\* shadows a const binding of "a" with another value in an ancestor
C3_Witness ==
    /\ envRet.op = "getitem"
    /\ envRet.name = "a"
    /\ envRet.err = NoError
    /\ "a" \in DOMAIN envs[envRet.env]._dict
    /\ ~envs[envRet.env]._dict["a"].is_const
    /\ envRet.value = envs[envRet.env]._dict["a"].value
    /\ envs[envRet.env].parent # None
    /\ LET g == NearestFrame(envs, envs[envRet.env].parent, "a") IN
        /\ g # None
        /\ envs[g]._dict["a"].is_const
        /\ envs[g]._dict["a"].value # envRet.value

\* C4: declare_const and declare_var fail with "name 'X' is already bound"
\* when the current frame binds the name (const or var) and change nothing;
\* otherwise (also when only an ancestor binds it) they bind the name in the
\* current frame alone, with the value and the flag of the declaration.
C4_DeclareInCurrentFrame ==
    [][ envRet'.op \in {"declare_const", "declare_var"} =>
          LET s == envRet'.env
              n == envRet'.name
          IN  /\ n \in DOMAIN envs[s]._dict =>
                    /\ envRet'.err = "name '" \o n \o "' is already bound"
                    /\ envs' = envs
              /\ n \notin DOMAIN envs[s]._dict =>
                    /\ envRet'.err = NoError
                    /\ SameButBinding(envs, envs', s, n)
                    /\ n \in DOMAIN envs'[s]._dict
                    /\ envs'[s]._dict[n] =
                         EnvironmentEntry(envRet'.arg, envRet'.op = "declare_const")
      ]_vars

\* declare_var of "a" has just failed in a frame that binds "a" as const,
\* while a child frame holds its own, shadowing declaration of "a"
C4_Witness ==
    /\ envRet.op = "declare_var"
    /\ envRet.name = "a"
    /\ envRet.err = "name 'a' is already bound"
    /\ envs[envRet.env]._dict["a"].is_const
    /\ envs[envRet.env]._dict["a"].value # envRet.arg
    /\ \E c \in 1..Len(envs) :
          /\ envs[c].parent = envRet.env
          /\ "a" \in DOMAIN envs[c]._dict

(***************************************************************************)
(* Claims about Object and Array values.                                   *)
(***************************************************************************)
\* C5: no key_get / key_set changes the key set of an Object, the const flag
\* of an entry or the value of a const entry; key_set fails with
\* 'unrecognized key "k"' on an absent key and with 'field "k" is constant'
\* on a const entry, the Object unchanged; key_get on an absent key is a
\* runtime error, not Empty; key_set on a var entry makes key_get(k) return
\* the item and changes no other entry.
C5_ObjectKeysAndConstFields ==
    [][ LET k == objRet'.key
            d == obj._dict
        IN  /\ DOMAIN obj'._dict = DOMAIN d
            /\ \A j \in DOMAIN d :
                  /\ obj'._dict[j].is_const = d[j].is_const
                  /\ d[j].is_const => obj'._dict[j].value = d[j].value
            /\ objRet'.op = "key_set" =>
                  /\ k \notin DOMAIN d =>
                        /\ objRet'.ret = XbRuntimeError("unrecognized key \"" \o k \o "\"")
                        /\ obj' = obj
                  /\ (k \in DOMAIN d /\ d[k].is_const) =>
                        /\ objRet'.ret = XbRuntimeError("field \"" \o k \o "\" is constant")
                        /\ obj' = obj
                  /\ (k \in DOMAIN d /\ ~d[k].is_const) =>
                        /\ objRet'.ret.err = NoError
                        /\ ValueKeyGet(obj', k) = Return(objRet'.arg)
                        /\ \A j \in DOMAIN d \ {k} : obj'._dict[j] = d[j]
            /\ objRet'.op = "key_get" =>
                  /\ obj' = obj
                  /\ k \notin DOMAIN d =>
                        /\ objRet'.ret.exc = "XbRuntimeError"
                        /\ objRet'.ret.value # Empty
                  /\ k \in DOMAIN d => objRet'.ret = Return(d[k].value)
      ]_vars

\* key_set of another value on the const field "x" has just been rejected,
\* the Object holding a second field
C5_Witness ==
    /\ objRet.op = "key_set"
    /\ objRet.key = "x"
    /\ objRet.ret.err = "field \"x\" is constant"
    /\ obj._dict["x"].is_const
    /\ obj._dict["x"].value # objRet.arg
    /\ "y" \in DOMAIN obj._dict

\* a valid index of array a: a Number stored as an int in [0, length)
ValidIndex(a, i) ==
    /\ i.type = "number"
    /\ i._val.py = "int"
    /\ 0 <= i._val.n
    /\ i._val.n < Len(a._list)

\* C7: index_get and index_set succeed exactly on a Number stored as an int
\* in [0, length); any other index raises a runtime error and leaves the
\* Array unchanged; after index_set(i, v), index_get(i) returns v and every
\* other element is unchanged; the length never changes.
C7_ArrayIndexValidation ==
    [][ LET i == arrRet'.index
            l == arr._list
        IN  /\ Len(arr'._list) = Len(l)
            /\ arrRet'.op = "index_get" =>
                  /\ arr' = arr
                  /\ ValidIndex(arr, i) => arrRet'.ret = Return(l[i._val.n + 1])
                  /\ ~ValidIndex(arr, i) => arrRet'.ret.exc = "XbRuntimeError"
            /\ arrRet'.op = "index_set" =>
                  /\ ValidIndex(arr, i) =>
                        /\ arrRet'.ret.err = NoError
                        /\ arr'._list = [l EXCEPT ![i._val.n + 1] = arrRet'.arg]
                        /\ ValueIndexGet(arr', i) = Return(arrRet'.arg)
                  /\ ~ValidIndex(arr, i) =>
                        /\ arrRet'.ret.exc = "XbRuntimeError"
                        /\ arr' = arr
      ]_vars

\* index_set at -1 has just been rejected on an Array of two elements whose
\* last element is not the item
C7_Witness ==
    /\ arrRet.op = "index_set"
    /\ arrRet.index = Number(PyInt(-1))
    /\ arrRet.ret.exc = "XbRuntimeError"
    /\ Len(arr._list) = 2
    /\ arr._list[2] # arrRet.arg

(***************************************************************************)
(* Claims about the Op facade.                                             *)
(***************************************************************************)
\* C8: Op.eq of two Values of differing variants returns Boolean false and
\* raises nothing; Op.eq(Empty, Empty) is true.
C8_EqAcrossVariants ==
    opName = "eq" =>
        /\ opA.type # opB.type => opRet = Return(Boolean(FALSE))
        /\ (opA = Empty /\ opB = Empty) => opRet = Return(Boolean(TRUE))
        /\ (opA = Empty /\ opB # Empty) => opRet = Return(Boolean(FALSE))
        /\ (opA # Empty /\ opB = Empty) => opRet = Return(Boolean(FALSE))

\* Op.eq(Empty, Boolean false) returned false
C8_Witness ==
    /\ opName = "eq"
    /\ opA = Empty
    /\ opB = Boolean(FALSE)
    /\ opRet = Return(Boolean(FALSE))

\* the outcome r of the primitive negated: its exception, or the opposite
\* Boolean
Negated(r) ==
    IF r.exc # NoError THEN r ELSE Return(Boolean(~r.value._bool))

\* C9: Op.neq, Op.lte, Op.gte return the negation of Op.eq, Op.gt, Op.lt and
\* raise the error of the primitive when it raises.
C9_DerivedAreNegations ==
    /\ opName = "neq" => opRet = Negated(OpEq(opA, opB))
    /\ opName = "lte" => opRet = Negated(OpGt(opA, opB))
    /\ opName = "gte" => opRet = Negated(OpLt(opA, opB))
    /\ opName \in {"lte", "gte"} =>
          (opRet.exc # NoError <=>
              (opA.type # opB.type \/ opA.type \notin {"number", "string"}))

\* Op.lte of two equal Strings returned true
C9_Witness ==
    /\ opName = "lte"
    /\ opA = String(<<98>>)
    /\ opB = String(<<98>>)
    /\ opRet = Return(Boolean(TRUE))

GuardedOps == {"lt", "gt", "add", "sub", "mul", "div", "int_div", "mod", "pow"}

\* the verb of the type guard's message
GuardVerb(op) ==
    CASE op \in {"lt", "gt"} -> "compare"
      [] op = "add" -> "add"
      [] op = "sub" -> "subtract"
      [] op = "mul" -> "multiply"
      [] op = "div" -> "divide"
      [] op = "int_div" -> "integer divide"
      [] op = "mod" -> "mod"
      [] op = "pow" -> "exponentiate"

\* the operation as "does not support" names it
UnsupportedName(op) ==
    CASE op \in {"lt", "gt"} -> "ordering"
      [] op = "add" -> "addition"
      [] op = "sub" -> "subtraction"
      [] op = "mul" -> "multiplication"
      [] op = "div" -> "division"
      [] op = "int_div" -> "integer division"
      [] op = "mod" -> "modulo"
      [] op = "pow" -> "exponentiation"

\* the variants that implement the operation
Supporting(op) ==
    IF op \in {"lt", "gt", "add"} THEN {"number", "string"} ELSE {"number"}

\* C10: a type-guarded operation on Values of differing variants raises
\* "cannot <verb> types 'A' and 'B'", whether or not the variant of A has the
\* operation; on two Values of one variant that lacks the operation it raises
\* "type 'A' does not support <op>".
C10_TypeGuardThenUnsupported ==
    opName \in GuardedOps =>
        /\ opA.type # opB.type =>
              opRet = XbRuntimeError("cannot " \o GuardVerb(opName) \o " types '"
                                     \o opA.type \o "' and '" \o opB.type \o "'")
        /\ (opA.type = opB.type /\ opA.type \notin Supporting(opName)) =>
              opRet = XbRuntimeError("type '" \o opA.type \o "' does not support "
                                     \o UnsupportedName(opName))

\* Op.add of a Boolean and a Number raised the guard's error, Boolean having
\* no addition
C10_Witness ==
    /\ opName = "add"
    /\ opA = Boolean(TRUE)
    /\ opB.type = "number"
    /\ opRet.err = "cannot add types 'boolean' and 'number'"

(***************************************************************************)
(* Claims about the evaluator.                                             *)
(***************************************************************************)
\* the dict that the name binds in the loop's Environment
BoundDict(es, h, name) == h[es[1]._dict[name].value.ref].items

\* C6: an Assign to a KeyAccess e.k is rejected when k is a const field of
\* the Object of e ('field "k" is constant', as in
\* const o = { x : 1 }; o.x = 2) and when k is no key of it, the Object left
\* as the literal built it.
C6_KeyAssignRespectsObject ==
    [][ "o" \notin DOMAIN envs[1]._dict =>
          /\ evRet'.prog = ProgS4 =>
                /\ evRet'.ret = XbRuntimeError("field \"x\" is constant")
                /\ BoundDict(envs', heap', "o") = [k \in {"x"} |-> PyFloat(1, 1)]
          /\ evRet'.prog = ProgAddKey =>
                /\ evRet'.ret.exc = "XbRuntimeError"
                /\ DOMAIN BoundDict(envs', heap', "o") = {"x"}
      ]_vars

(***************************************************************************)
(* Vocabulary of the claims about the evaluator: the Value that a value of *)
(* the evaluator stands for, and the value a name is bound to.             *)
(***************************************************************************)
RECURSIVE ValueOf(_, _)
ValueOf(h, v) ==
    CASE v.py = "NoneType" -> Empty
      [] v.py = "bool" -> Boolean(v.b)
      [] v.py \in {"int", "float"} -> Number(v)
      [] v.py = "str" -> String(v.s)
      [] v.py = "list" ->
            Array([i \in 1..Len(h[v.ref].items) |-> ValueOf(h, h[v.ref].items[i])])
      [] v.py = "dict" ->
            Object([k \in DOMAIN h[v.ref].items |->
                        ObjectEntry(ValueOf(h, h[v.ref].items[k]), FALSE)])
      [] OTHER -> NoValue

\* the program has been evaluated
Evaluated(prog) == pc = "done" /\ evRet.prog = prog

\* the evaluation returned a value that stands for val
Returned(val) ==
    evRet.ret.exc = NoError /\ ValueOf(heap, evRet.ret.value) = val

\* name is bound, in the program's Environment, to a value that stands for val
BoundTo(name, val) ==
    /\ name \in DOMAIN envs[1]._dict
    /\ ValueOf(heap, envs[1]._dict[name].value) = val

\* C11: And evaluates and returns its RHS iff its LHS is truthy by the
\* Boolean cast (only () and false are falsy) and otherwise returns the LHS
\* with the RHS not evaluated; Or returns its LHS, the RHS not evaluated, iff
\* the LHS is truthy, and otherwise evaluates and returns the RHS.
C11_LogicByBooleanCast ==
    \A L \in Lits, R \in Lits :
        /\ Evaluated(LogicProg("And", L, R)) =>
              IF Truthy(L.val)
              THEN Returned(R.val) /\ BoundTo("m", R.val)
              ELSE Returned(L.val) /\ BoundTo("m", String(<<45>>))
        /\ Evaluated(LogicProg("Or", L, R)) =>
              IF Truthy(L.val)
              THEN Returned(L.val) /\ BoundTo("m", String(<<45>>))
              ELSE Returned(R.val) /\ BoundTo("m", R.val)

\* C12: a ?? b evaluates a once; it evaluates b and returns b's value iff
\* a's value is Empty, and otherwise returns a's value with b not evaluated.
C12_CoalesceOnEmptyOnly ==
    \A L \in Lits, R \in Lits :
        Evaluated(CoalesceProg(L, R)) =>
            /\ BoundTo("n", Number(PyInt(1)))
            /\ IF L.val = Empty
               THEN Returned(R.val) /\ BoundTo("m", R.val)
               ELSE Returned(L.val) /\ BoundTo("m", String(<<45>>))

\* false ?? 1 has returned false and left m unwritten
C12_Witness ==
    /\ Evaluated(CoalesceProg([ast |-> AstBool(FalseToken), val |-> Boolean(FALSE)],
                              [ast |-> Num1, val |-> Number(PyInt(1))]))
    /\ Returned(Boolean(FALSE))
    /\ BoundTo("m", String(<<45>>))
    /\ BoundTo("n", Number(PyInt(1)))

\* the value of the field of the dict, and of the item of the list, that the
\* name is bound to
FieldOf(name, key) == ValueOf(heap, heap[envs[1]._dict[name].value.ref].items[key])

ItemOf(name, place) == ValueOf(heap, heap[envs[1]._dict[name].value.ref].items[place])

\* what the target n, o.x or a[0] holds
TargetHolds(T, val) ==
    CASE T.node = "Identifier" -> BoundTo("n", val)
      [] T.node = "KeyAccess" -> FieldOf("o", "x") = val
      [] T.node = "IndexAccess" -> ItemOf("a", 1) = val

\* C13: an Assign evaluates its target as an Assigner, then its RHS, then
\* invokes the Assigner and returns the RHS value; when the RHS raises, the
\* binding, field or element is not written; a target that is no Identifier,
\* KeyAccess or IndexAccess fails with 'invalid assignment target'.
C13_AssignOrderAndTargets ==
    /\ \A T \in Targets :
          /\ \A E \in Failing :
                Evaluated(AssignProg(T, E)) =>
                    /\ evRet.ret.exc # NoError
                    /\ TargetHolds(T, Number(PyInt(1)))
          /\ \A R \in Lits :
                Evaluated(AssignProg(T, R.ast)) =>
                    Returned(R.val) /\ TargetHolds(T, R.val)
    /\ Evaluated(AssignOrderKey) =>
          /\ Returned(Number(PyInt(2)))
          /\ FieldOf("b", "x") = Number(PyInt(2))
          /\ FieldOf("o", "x") = Number(PyInt(5))
    /\ Evaluated(AssignOrderIndex) =>
          /\ Returned(Number(PyInt(0)))
          /\ ItemOf("a", 1) = Number(PyInt(1))
          /\ ItemOf("a", 2) = Number(PyInt(0))
    /\ \A X \in NonTargets :
          Evaluated(AssignProg(X, AstAssign(IdM, Num2))) =>
              evRet.ret = XbRuntimeError("invalid assignment target")

\* o.x = { m = 2; zz } has raised after its RHS wrote m, and o.x is not written
C13_Witness ==
    /\ Evaluated(AssignProg(AstKeyAccess(IdO, AstKey("x")),
                            AstNestedBlock(AstBlock(<<AstAssign(IdM, Num2), IdZz>>))))
    /\ evRet.ret = XbRuntimeError(MsgNotRecognized("zz"))
    /\ BoundTo("m", Number(PyInt(2)))
    /\ FieldOf("o", "x") = Number(PyInt(1))

\* C14: an Array or Object held by several bindings, in one frame or in two,
\* or inside another aggregate, is one object: a write of an element or a
\* field through one holder is read through every other, and declaring,
\* assigning or looking up the aggregate makes no copy of it.
C14_AggregatesAreShared ==
    \A c \in AliasCases :
        Evaluated(c.prog) =>
            /\ Returned(Number(PyInt(9)))
            /\ Len(heap) = c.made
            /\ \A name \in DOMAIN envs[1]._dict \cap {"a", "o"} :
                  \* the holder keeps the object it was declared with
                  envs[1]._dict[name].value.ref = (IF name = "o" THEN 1 ELSE 2)

\* { var b = a; b[0] = 9 }; a[0] has read 9 through a in the outer frame
C14_Witness ==
    /\ \E c \in AliasCases :
          /\ Evaluated(c.prog)
          /\ c.prog.exprs[5].node = "NestedBlock"
          /\ c.prog.exprs[6].node = "IndexAccess"
    /\ Returned(Number(PyInt(9)))
    /\ ItemOf("a", 1) = Number(PyInt(9))
    /\ "b" \notin DOMAIN envs[1]._dict

\* C15: subexpressions are evaluated left to right, as their writes to the
\* Environment show: a binary node evaluates its LHS before its RHS; e[i]
\* evaluates e before i, as a value and as an assignment target; Array and
\* Object literals evaluate their elements and pairs in textual order.
C15_LeftToRight ==
    /\ \A op \in TwoOperandNodes :
          Evaluated(OrderBinary(op)) => BoundTo("n", Number(PyInt(6)))
    /\ Evaluated(OrderArray) =>
          /\ BoundTo("n", Number(PyInt(6)))
          /\ Returned(Array(<<Number(PyInt(2)), Number(PyInt(6))>>))
    /\ Evaluated(OrderObject) =>
          /\ BoundTo("n", Number(PyInt(6)))
          /\ evRet.ret.exc = NoError
          /\ ValueOf(heap, heap[evRet.ret.value.ref].items["x"]) = Number(PyInt(2))
          /\ ValueOf(heap, heap[evRet.ret.value.ref].items["y"]) = Number(PyInt(6))
    /\ Evaluated(OrderIndexTarget) =>
          \* e sets n to 0 before i reads it: a[0] is written
          /\ ItemOf("a", 1) = Number(PyInt(9))
          /\ ItemOf("a", 2) = Number(PyInt(5))
    /\ Evaluated(OrderIndexValue) =>
          \* e sets n to 0 before i reads it: a[0] is read
          Returned(Number(PyInt(1)))

\* the Op facade operation that the node stands for
OpOf(op, a, b) ==
    CASE op = "Equal" -> OpEq(a, b)
      [] op = "NotEqual" -> OpNeq(a, b)
      [] op = "LessThan" -> OpLt(a, b)
      [] op = "GreaterThan" -> OpGt(a, b)
      [] op = "LessThanOrEqual" -> OpLte(a, b)
      [] op = "GreaterThanOrEqual" -> OpGte(a, b)
      [] op = "Add" -> OpAdd(a, b)
      [] op = "Subtract" -> OpSub(a, b)
      [] op = "Multiply" -> OpMul(a, b)
      [] op = "Divide" -> OpDiv(a, b)
      [] op = "IntegerDivide" -> OpIntDiv(a, b)
      [] op = "Mod" -> OpMod(a, b)
      [] op = "Pow" -> OpPow(a, b)

\* the evaluation ended as the outcome does: the same value, or the same error
SameOutcome(outcome) ==
    IF outcome.exc = NoError THEN Returned(outcome.value)
    ELSE evRet.ret.exc = outcome.exc /\ evRet.ret.err = outcome.err

\* C18: a compare or arithmetic node yields, for every pair of operand
\* values, the outcome of the Op facade operation on them: equality across
\* variants is false, ordering and arithmetic across variants is a runtime
\* error, and division by zero is the runtime error 'division by 0'.
C18_NodesDelegateToOp ==
    \A op \in OpNodes, L \in Lits, R \in Lits :
        Evaluated(BinaryProg(op, L, R)) => SameOutcome(OpOf(op, L.val, R.val))

\* C19: a NestedBlock evaluates its Block in a new child Environment: what
\* the block declares is not bound in the enclosing one afterwards and may
\* shadow, without changing, an outer binding; an assignment inside the
\* block to an outer var updates the outer binding.
C19_NestedBlockScope ==
    /\ \A D \in {"x", "c", "y"}, decl \in {"VarDecl", "ConstDecl"} :
          Evaluated(NestedProg(D, decl)) =>
              /\ Len(envs) = 1
              /\ DOMAIN envs[1]._dict = {"x", "c"}
              /\ BoundTo("c", Number(PyInt(2))) /\ envs[1]._dict["c"].is_const
              /\ BoundTo("x", Number(PyInt(IF D = "x" THEN 1 ELSE 3)))
              /\ ~envs[1]._dict["x"].is_const
              /\ IF D = "x" /\ decl = "ConstDecl"
                 THEN evRet.ret = XbRuntimeError(MsgIsConstant("x"))
                 ELSE Returned(Number(PyInt(IF D = "x" THEN 3 ELSE 7)))
    /\ Evaluated(NestedTwice) =>
          /\ evRet.ret = XbRuntimeError(MsgNotRecognized("y"))
          /\ envs = <<NewEnvironment(None)>>

\* { var c = 7; x = 3; c } has returned the inner c, 7, with the outer
\* const c still 2 and the outer x now 3
C19_Witness ==
    /\ Evaluated(NestedProg("c", "VarDecl"))
    /\ Returned(Number(PyInt(7)))
    /\ BoundTo("c", Number(PyInt(2)))
    /\ BoundTo("x", Number(PyInt(3)))

\* the Value is an integer-valued Number i with 0 <= i < length
InRange(val, length) ==
    /\ val.type = "number"
    /\ val._val.py = "int"
    /\ 0 <= val._val.n /\ val._val.n < length

\* C20: e[i] on an Array, as a value or as a target, succeeds only for an
\* integer-valued Number i with 0 <= i < length; a negative or fractional
\* index is a runtime error that reads and writes no element; as a target
\* the index expression is evaluated once.
C20_IndexAccessValidatesIndex ==
    /\ \A I \in Indices :
          /\ Evaluated(IndexRead(I)) =>
                IF InRange(I.val, 2)
                THEN Returned(Number(PyInt(IF I.val._val.n = 0 THEN 1 ELSE 5)))
                ELSE evRet.ret.exc = "XbRuntimeError"
          /\ Evaluated(IndexWrite(I)) =>
                IF InRange(I.val, 2)
                THEN /\ Returned(Number(PyInt(9)))
                     /\ ItemOf("a", I.val._val.n + 1) = Number(PyInt(9))
                ELSE /\ evRet.ret.exc = "XbRuntimeError"
                     /\ ItemOf("a", 1) = Number(PyInt(1))
                     /\ ItemOf("a", 2) = Number(PyInt(5))
    /\ Evaluated(IndexOnce) =>
          /\ BoundTo("n", Number(PyInt(0)))
          /\ ItemOf("a", 1) = Number(PyInt(9))
          /\ ItemOf("a", 2) = Number(PyInt(5))

\* C16: every file() execution evaluates its program against a fresh
\* Environment: its outcome is the one the program has with no binding
\* present, whatever earlier executions in the process declared.
C16_FileFreshEnvironment ==
    \A prog \in FilePrograms :
        evRet.prog = prog =>
            evRet.ret =
                Display(Evaluate(prog, 1, EvalState(<<NewEnvironment(None)>>, <<>>)).ret)

\* names bound in the REPL's Environment
ReplNames == DOMAIN envs[1]._dict

\* C17: the REPL evaluates every line against one persistent Environment:
\* a name bound by an earlier line is still bound after every later line and
\* is what a later read of it returns; a line that raises has its error
\* recorded, leaves the loop at the prompt and discards no binding; the loop
\* ends only on end-of-input.
C17_ReplPersistentEnvironment ==
    /\ [](evRet.prog = AstBlock(<<IdN>>) =>
            IF "n" \in ReplNames
            THEN /\ evRet.ret.exc = NoError
                 /\ evRet.ret.value = envs[1]._dict["n"].value
            ELSE evRet.ret = XbRuntimeError(MsgNotRecognized("n")))
    /\ [][/\ pc = "prompt"
          /\ Len(envs') = 1
          /\ ReplNames \subseteq DOMAIN envs'[1]._dict
          /\ pc' \in {"prompt", "done"}
          /\ evRet'.ret.exc # NoError /\ evRet' # evRet => pc' = "prompt"
          /\ pc' = "done" => evRet' = evRet /\ envs' = envs /\ heap' = heap]_vars

\* the line 1 = 2 has just raised, n from an earlier line is still bound and
\* the loop is at the prompt
C17_Witness ==
    /\ evRet.prog = AstBlock(<<AstAssign(Num1, Num2)>>)
    /\ evRet.ret = XbRuntimeError("invalid assignment target")
    /\ "n" \in ReplNames
    /\ pc = "prompt"

\* C21: every failure of an Op facade operation or of a cast on Values is
\* an XbRuntimeError and no other exception of the host: among them Op.pow
\* of Number 0 to a negative exponent and Number.cast of a String that is no
\* number literal.
C21_FailuresAreRuntimeErrors ==
    opRet.exc \in {NoError, "XbRuntimeError"}

=============================================================================
